---------------------------- MODULE Spec2Model ----------------------------
(***************************************************************************)
(* A model of taskporter's configuration translation engine: the canonical *)
(* Task, the VSCode / JetBrains parsers, the type classifiers, the         *)
(* placeholder translators, the four converters and the JSONC comment      *)
(* stripper.                                                               *)
(*                                                                         *)
(* Go strings are TLA+ strings; Len, SubSeq, Head, Tail and \o act on them *)
(* character by character, so substring tests, case folding, splitting and *)
(* replacement are computed as the code computes them.                     *)
(***************************************************************************)
EXTENDS Naturals, Integers, Sequences, FiniteSets, TLC

VARIABLES
    storage,    \* the output location: directories and files with their content
    call,       \* the converter invocation of this process run and what it returned
    arg,        \* the input handed to a parser / classifier / stripper
    ret         \* what that function returned (Idle before the call)

vars == <<storage, call, arg, ret>>

(***************************************************************************)
(* Go's strings package.                                                   *)
(***************************************************************************)
UpperLetters == "ABCDEFGHIJKLMNOPQRSTUVWXYZ"
LowerLetters == "abcdefghijklmnopqrstuvwxyz"

\* the i-th character of s, as a string of length one
CharAt(s, i) == SubSeq(s, i, i)

\* the lower-case letter of each upper-case letter
LowerOfUpper ==
    [c \in {CharAt(UpperLetters, i) : i \in 1..Len(UpperLetters)} |->
        CharAt(LowerLetters, CHOOSE i \in 1..Len(UpperLetters) : CharAt(UpperLetters, i) = c)]

ToLowerChar(c) == IF c \in DOMAIN LowerOfUpper THEN LowerOfUpper[c] ELSE c

\* strings.ToLower
RECURSIVE ToLower(_)
ToLower(s) == IF s = "" THEN "" ELSE ToLowerChar(Head(s)) \o ToLower(Tail(s))

\* strings.HasPrefix
HasPrefix(s, prefix) ==
    Len(s) >= Len(prefix) /\ SubSeq(s, 1, Len(prefix)) = prefix

\* strings.HasSuffix
HasSuffix(s, suffix) ==
    Len(s) >= Len(suffix) /\ SubSeq(s, Len(s) - Len(suffix) + 1, Len(s)) = suffix

\* strings.Contains
Contains(s, substr) ==
    \E i \in 0..(Len(s) - Len(substr)) : SubSeq(s, i + 1, i + Len(substr)) = substr

\* strings.ReplaceAll (old is never empty in the sources)
RECURSIVE ReplaceAll(_, _, _)
ReplaceAll(s, old, new) ==
    IF Len(s) < Len(old) THEN s
    ELSE IF SubSeq(s, 1, Len(old)) = old
         THEN new \o ReplaceAll(SubSeq(s, Len(old) + 1, Len(s)), old, new)
         ELSE Head(s) \o ReplaceAll(Tail(s), old, new)

\* unicode.IsSpace on the ASCII characters used here
IsSpace(c) == c \in {" ", "\t", "\n", "\r"}

RECURSIVE FieldsAcc(_, _, _)
FieldsAcc(s, cur, acc) ==
    IF s = "" THEN (IF cur = "" THEN acc ELSE Append(acc, cur))
    ELSE IF IsSpace(Head(s))
         THEN FieldsAcc(Tail(s), "", IF cur = "" THEN acc ELSE Append(acc, cur))
         ELSE FieldsAcc(Tail(s), cur \o Head(s), acc)

\* strings.Fields
Fields(s) == FieldsAcc(s, "", <<>>)

\* strings.Join
RECURSIVE Join(_, _)
Join(elems, sep) ==
    IF elems = <<>> THEN ""
    ELSE IF Len(elems) = 1 THEN elems[1]
    ELSE elems[1] \o sep \o Join(Tail(elems), sep)

\* strings.Trim(s, cutset) for a one-character cutset
RECURSIVE TrimLeft(_, _)
TrimLeft(s, c) == IF s # "" /\ Head(s) = c THEN TrimLeft(Tail(s), c) ELSE s
RECURSIVE TrimRight(_, _)
TrimRight(s, c) ==
    IF s # "" /\ CharAt(s, Len(s)) = c THEN TrimRight(SubSeq(s, 1, Len(s) - 1), c) ELSE s
Trim(s, c) == TrimRight(TrimLeft(s, c), c)

\* the index of the first element of seq satisfying Test, or 0 (a search loop
\* that returns at its first hit)
FirstIndex(seq, Test(_)) ==
    IF \E i \in DOMAIN seq : Test(seq[i])
    THEN CHOOSE i \in DOMAIN seq : Test(seq[i]) /\ \A j \in 1..(i - 1) : ~Test(seq[j])
    ELSE 0

Min(S) == CHOOSE x \in S : \A y \in S : x <= y

(***************************************************************************)
(* The canonical Task (internal/config/task.go).  Type, Group and Source   *)
(* are kept as atomic values.  Env is a function from keys to values.      *)
(***************************************************************************)
TypeVSCodeTask == "vscode-task"
TypeVSCodeLaunch == "vscode-launch"
TypeJetBrains == "jetbrains"

NoEnv == [k \in {} |-> ""]

Task(name, type, command, args, cwd, env, group, description, source) ==
    [Name |-> name, Type |-> type, Command |-> command, Args |-> args,
     Cwd |-> cwd, Env |-> env, Group |-> group, Description |-> description,
     Source |-> source]

\* a nil error
NoError == "nil"

(***************************************************************************)
(* Type classifiers.                                                       *)
(***************************************************************************)
\* VSCodeToJetBrainsConverter.determineConfigType
determineConfigType(task) ==
    LET command == ToLower(task.Command) IN
    IF command = "java" THEN "Application"
    ELSE IF Contains(command, "gradle") THEN "GradleRunTask"
    ELSE IF Contains(command, "maven") \/ Contains(command, "mvn")
         THEN "MavenRunConfiguration"
    ELSE IF Contains(command, "npm") \/ Contains(command, "node") THEN "NodeJS"
    ELSE IF Contains(command, "python") \/ Contains(command, "py")
         THEN "PythonConfigurationType"
    ELSE "ShellScript"

\* VSCodeLaunchToJetBrainsConverter.determineJetBrainsConfigType
determineJetBrainsConfigType(task) ==
    LET description == ToLower(task.Description)
        command == ToLower(task.Command)
    IN
    IF Contains(description, "go launch") \/ Contains(description, "go attach")
       \/ command = "go"
    THEN [configType |-> "GoApplicationRunConfiguration", err |-> NoError]
    ELSE IF Contains(description, "node launch") \/ Contains(description, "node attach")
            \/ command = "node" \/ Contains(task.Command, ".js")
            \/ Contains(task.Command, ".ts")
    THEN [configType |-> "NodeJSConfigurationType", err |-> NoError]
    ELSE IF Contains(description, "python launch") \/ Contains(description, "python attach")
            \/ command = "python" \/ Contains(task.Command, ".py")
    THEN [configType |-> "PythonConfigurationType", err |-> NoError]
    ELSE IF Contains(command, "java") \/ Contains(task.Command, "mainClass")
    THEN [configType |-> "Application", err |-> NoError]
    ELSE [configType |-> "Application", err |-> NoError]

(***************************************************************************)
(* Placeholder translation.                                                *)
(***************************************************************************)
\* JetBrainsToVSCodeLaunchConverter.convertJetBrainsVariables and
\* JetBrainsToVSCodeConverter.convertJetBrainsVariables (the same five passes)
convertJetBrainsVariables(input) ==
    LET r1 == ReplaceAll(input, "$PROJECT_DIR$", "${workspaceFolder}")
        r2 == ReplaceAll(r1, "$MODULE_DIR$", "${workspaceFolder}")
        r3 == ReplaceAll(r2, "$FileDir$", "${fileDirname}")
        r4 == ReplaceAll(r3, "$FileName$", "${fileBasename}")
    IN ReplaceAll(r4, "$FilePath$", "${file}")

\* VSCodeLaunchToJetBrainsConverter.convertVSCodeVariables
Launch_convertVSCodeVariables(input) ==
    LET r1 == ReplaceAll(input, "${workspaceFolder}", "$PROJECT_DIR$")
        r2 == ReplaceAll(r1, "${workspaceRoot}", "$PROJECT_DIR$")
        r3 == ReplaceAll(r2, "${fileDirname}", "$FileDir$")
        r4 == ReplaceAll(r3, "${fileBasename}", "$FileName$")
        r5 == ReplaceAll(r4, "${file}", "$FilePath$")
    IN ReplaceAll(r5, "${relativeFile}", "$FilePathRelativeToProjectRoot$")

\* VSCodeToJetBrainsConverter.convertVSCodeVariables.  The code ranges over a
\* map, so the six passes run in an unspecified order; no pattern is a
\* substring of another and no replacement produces a pattern, so every order
\* gives the result of this one.
convertVSCodeVariables(path) ==
    LET r1 == ReplaceAll(path, "${workspaceFolder}", "$PROJECT_DIR$")
        r2 == ReplaceAll(r1, "${workspaceRoot}", "$PROJECT_DIR$")
        r3 == ReplaceAll(r2, "${file}", "$FilePath$")
        r4 == ReplaceAll(r3, "${fileBasename}", "$FileName$")
        r5 == ReplaceAll(r4, "${fileDirname}", "$FileDir$")
    IN ReplaceAll(r5, "${fileExtname}", "$FileExt$")

(***************************************************************************)
(* JetBrains run configuration -> VSCode launch configuration.             *)
(***************************************************************************)
IsClassLike(part) == Contains(part, ".") /\ ~HasPrefix(part, "-")
IsClassLikeNoJar(part) == IsClassLike(part) /\ ~HasSuffix(part, ".jar")
IsScript(part) == HasSuffix(part, ".js") \/ HasSuffix(part, ".ts")
IsPyScript(part) == HasSuffix(part, ".py")

\* JetBrainsToVSCodeLaunchConverter.extractJavaMainClass
extractJavaMainClass(task) ==
    LET parts == Fields(task.Command)
        i == FirstIndex(parts, IsClassLike)
        j == FirstIndex(task.Args, IsClassLikeNoJar)
    IN IF i # 0 THEN parts[i]
       ELSE IF j # 0 THEN task.Args[j]
       ELSE "Main"

\* JetBrainsToVSCodeLaunchConverter.extractJavaArgs
extractJavaArgs(task, mainClass) == SelectSeq(task.Args, LAMBDA a : a # mainClass)

\* the program among the command's parts after the first (i > 0 in the code)
ProgramPartIndex(parts, IsProg(_)) ==
    LET idx == {i \in 2..Len(parts) : IsProg(parts[i])}
    IN IF idx = {} THEN 0 ELSE Min(idx)

\* JetBrainsToVSCodeLaunchConverter.extractNodeProgram
extractNodeProgram(task) ==
    LET parts == Fields(task.Command)
        i == ProgramPartIndex(parts, IsScript)
        j == FirstIndex(task.Args, IsScript)
    IN IF i # 0 THEN parts[i]
       ELSE IF j # 0 THEN task.Args[j]
       ELSE "${workspaceFolder}/index.js"

\* JetBrainsToVSCodeLaunchConverter.extractNodeArgs
extractNodeArgs(task) ==
    LET parts == Fields(task.Command)
        i == ProgramPartIndex(parts, IsScript)
    IN (IF i = 0 THEN <<>> ELSE SubSeq(parts, i + 1, Len(parts))) \o task.Args

\* JetBrainsToVSCodeLaunchConverter.extractPythonProgram
extractPythonProgram(task) ==
    LET parts == Fields(task.Command)
        i == ProgramPartIndex(parts, IsPyScript)
        j == FirstIndex(task.Args, IsPyScript)
    IN IF i # 0 THEN parts[i]
       ELSE IF j # 0 THEN task.Args[j]
       ELSE "${workspaceFolder}/main.py"

\* JetBrainsToVSCodeLaunchConverter.extractPythonArgs
extractPythonArgs(task) ==
    LET parts == Fields(task.Command)
        i == ProgramPartIndex(parts, IsPyScript)
    IN (IF i = 0 THEN <<>> ELSE SubSeq(parts, i + 1, Len(parts))) \o task.Args

\* a VSCodeLaunchConfig as convertSingleTaskToLaunch first builds it
NewLaunchConfig(name) ==
    [Name |-> name, Type |-> "", Request |-> "launch", Program |-> "",
     MainClass |-> "", Args |-> <<>>, Cwd |-> "", Env |-> NoEnv]

\* JetBrainsToVSCodeLaunchConverter.determineLaunchType: the launch
\* configuration as the call leaves it, and the error it returns
determineLaunchType(task, launchConfig) ==
    LET command == ToLower(task.Command) IN
    IF Contains(command, "java") THEN
        LET mainClass == extractJavaMainClass(task) IN
        IF mainClass = ""
        THEN [launchConfig |-> [launchConfig EXCEPT !.Type = "java"],
              err |-> "could not determine main class"]
        ELSE [launchConfig |-> [launchConfig EXCEPT !.Type = "java",
                                                    !.MainClass = mainClass,
                                                    !.Args = extractJavaArgs(task, mainClass)],
              err |-> NoError]
    ELSE IF Contains(command, "node") THEN
        LET program == extractNodeProgram(task) IN
        IF program = ""
        THEN [launchConfig |-> [launchConfig EXCEPT !.Type = "node"],
              err |-> "could not determine program"]
        ELSE [launchConfig |-> [launchConfig EXCEPT !.Type = "node",
                                                    !.Program = convertJetBrainsVariables(program),
                                                    !.Args = extractNodeArgs(task)],
              err |-> NoError]
    ELSE IF Contains(command, "python") THEN
        LET program == extractPythonProgram(task) IN
        IF program = ""
        THEN [launchConfig |-> [launchConfig EXCEPT !.Type = "python"],
              err |-> "could not determine program"]
        ELSE [launchConfig |-> [launchConfig EXCEPT !.Type = "python",
                                                    !.Program = convertJetBrainsVariables(program),
                                                    !.Args = extractPythonArgs(task)],
              err |-> NoError]
    ELSE
        LET parts == Fields(task.Command) IN
        IF Len(parts) > 0
        THEN [launchConfig |-> [launchConfig EXCEPT !.Type = "node",
                                                    !.Program = convertJetBrainsVariables(parts[1]),
                                                    !.Args = Tail(parts) \o task.Args],
              err |-> NoError]
        ELSE [launchConfig |-> [launchConfig EXCEPT !.Type = "node"],
              err |-> "could not determine program"]

(***************************************************************************)
(* Idle values of the variables a specification does not use.              *)
(***************************************************************************)
EmptyStorage == [dirs |-> {}, files |-> <<>>]
NoCall == [conv |-> "none"]
Idle == [fn |-> "none"]

(***************************************************************************)
(* SpecClassify: each of the three classifiers applied to a task.          *)
(***************************************************************************)
ClassifyCommands ==
    {"", "   ", "java", "JAVA", "javac", "gradle java", "gradle", "mvn", "node",
     "Node server.js", "python", "py", "go", "sh", "go run .", "java com.example.Main"}

ClassifyDescriptions ==
    {"", "go launch configuration", "node launch configuration",
     "python launch configuration", "JetBrains Application configuration",
     "GoApplicationRunConfiguration"}

ClassifyArgs == {<<>>, <<"com.Main", "app.js">>}

ClassifyInputs ==
    {Task("My Application", TypeJetBrains, c, a, "", NoEnv, "", d, "") :
        c \in ClassifyCommands, a \in ClassifyArgs, d \in ClassifyDescriptions}

InitClassify ==
    /\ storage = EmptyStorage
    /\ call = NoCall
    /\ arg \in ClassifyInputs
    /\ ret = Idle

\* determineConfigType has no error result
ClassifyVSCodeTask ==
    /\ ret = Idle
    /\ ret' = [fn |-> "determineConfigType", type |-> determineConfigType(arg),
               err |-> NoError]
    /\ UNCHANGED <<storage, call, arg>>

ClassifyVSCodeLaunch ==
    /\ ret = Idle
    /\ LET r == determineJetBrainsConfigType(arg) IN
       ret' = [fn |-> "determineJetBrainsConfigType", type |-> r.configType,
               err |-> r.err]
    /\ UNCHANGED <<storage, call, arg>>

ClassifyJetBrains ==
    /\ ret = Idle
    /\ LET r == determineLaunchType(arg, NewLaunchConfig(arg.Name)) IN
       ret' = [fn |-> "determineLaunchType", type |-> r.launchConfig.Type,
               err |-> r.err]
    /\ UNCHANGED <<storage, call, arg>>

NextClassify == ClassifyVSCodeTask \/ ClassifyVSCodeLaunch \/ ClassifyJetBrains

SpecClassify == InitClassify /\ [][NextClassify]_vars

\* the language a classifier's result names
Flavor(type) ==
    CASE type \in {"Application", "java"} -> "java"
      [] type \in {"GoApplicationRunConfiguration", "go"} -> "go"
      [] type \in {"NodeJS", "NodeJSConfigurationType", "node"} -> "node"
      [] type \in {"PythonConfigurationType", "python"} -> "python"
      [] type \in {"GradleRunTask", "GradleRunConfiguration"} -> "gradle"
      [] type = "MavenRunConfiguration" -> "maven"
      [] OTHER -> "shell"

\* the category of a language
Category(flavor) ==
    CASE flavor \in {"java", "go"} -> "compiled"
      [] flavor \in {"gradle", "maven"} -> "build-tool"
      [] flavor \in {"node", "python"} -> "scripted"
      [] OTHER -> "generic"

(***************************************************************************)
(* Claims about classification, checked under SpecClassify.                *)
(***************************************************************************)
\* the language an explicit hint in a description names ("<type> launch
\* configuration" from the launch parser, "JetBrains <Type> configuration" from
\* the run-configuration parser, a bare configuration type), or "none"
HintedFlavor(description) ==
    LET d == ToLower(description) IN
    IF Contains(d, "go launch") \/ Contains(d, "goapplicationrunconfiguration") THEN "go"
    ELSE IF Contains(d, "node launch") \/ Contains(d, "nodejsconfigurationtype") THEN "node"
    ELSE IF Contains(d, "python launch") \/ Contains(d, "pythonconfigurationtype")
         THEN "python"
    ELSE IF Contains(d, "jetbrains application configuration") THEN "java"
    ELSE "none"

\* C7: in every classifier, a task whose description carries an explicit
\* category hint is classified as the hint says, whatever its command matches.
C7_HintTakesPrecedence ==
    (ret # Idle /\ HintedFlavor(arg.Description) # "none")
        => Flavor(ret.type) = HintedFlavor(arg.Description)

\* the first category, in the order compiled-language toolchain, build tool,
\* scripted-language interpreter, generic, one of whose patterns occurs in the
\* command, ignoring case
FirstMatchingCategory(cmd) ==
    LET c == ToLower(cmd) IN
    IF Contains(c, "java") THEN "compiled"
    ELSE IF Contains(c, "gradle") \/ Contains(c, "maven") \/ Contains(c, "mvn")
         THEN "build-tool"
    ELSE IF Contains(c, "npm") \/ Contains(c, "node") \/ Contains(c, "python")
            \/ Contains(c, "py")
         THEN "scripted"
    ELSE "generic"

\* C8: determineConfigType matches every category's patterns as
\* case-insensitive substrings of the command and returns the first matching
\* category in the order compiled, build tool, scripted, generic.
C8_SubstringFirstMatch ==
    ret.fn = "determineConfigType"
        => Category(Flavor(ret.type)) = FirstMatchingCategory(arg.Command)

\* C9: no classifier returns an error, for any command (the empty one
\* included) and any description; each returns some category.
C9_ClassificationNeverFails ==
    ret # Idle => (ret.err = NoError /\ ret.type # "")

(***************************************************************************)
(* Storage: the directories that exist, the files with their content, and  *)
(* the paths the operating system refuses to create or write.              *)
(***************************************************************************)
\* filepath.Join of clean components
JoinPath(dir, name) == dir \o "/" \o name

\* filepath.Dir of a clean path holding a slash
RECURSIVE Dir(_)
Dir(path) ==
    IF path = "" THEN "."
    ELSE IF CharAt(path, Len(path)) = "/"
         THEN (IF Len(path) = 1 THEN "/" ELSE SubSeq(path, 1, Len(path) - 1))
         ELSE Dir(SubSeq(path, 1, Len(path) - 1))

\* the directory and its ancestors, up to the root
RECURSIVE Ancestors(_)
Ancestors(dir) == IF dir \in {"/", "."} THEN {dir} ELSE {dir} \cup Ancestors(Dir(dir))

\* os.MkdirAll: nil when the directory exists or it and its missing parents
\* can be created
MkdirAll(sto, dir) ==
    IF dir \in sto.dirs THEN [ok |-> TRUE, storage |-> sto]
    ELSE IF (Ancestors(dir) \ sto.dirs) \cap sto.denied # {}
    THEN [ok |-> FALSE, storage |-> sto]
    ELSE [ok |-> TRUE, storage |-> [sto EXCEPT !.dirs = @ \cup Ancestors(dir)]]

\* os.WriteFile: creates or truncates the file; whole-file replace
WriteFile(sto, path, content) ==
    IF path \in sto.denied \/ Dir(path) \notin sto.dirs
    THEN [ok |-> FALSE, storage |-> sto]
    ELSE [ok |-> TRUE,
          storage |-> [sto EXCEPT !.files =
                          [p \in DOMAIN sto.files \cup {path} |->
                              IF p = path THEN content ELSE sto.files[p]]]]

\* one line of standard output
Line(kind, subject) == [kind |-> kind, subject |-> subject]

\* a converter as constructed by New...Converter
Converter(projectRoot, outputPath, verbose) ==
    [projectRoot |-> projectRoot, outputPath |-> outputPath, verbose |-> verbose]

Option(name, value) == [Name |-> name, Value |-> value]

(***************************************************************************)
(* VSCode tasks -> JetBrains run configurations (one file per task).       *)
(***************************************************************************)
\* a faulty derivation that drops the spaces instead of replacing them
sanitizeFilename_SpacesDropped(name) ==
    LET r1 == ReplaceAll(name, "/", "_")
        r2 == ReplaceAll(r1, "\\", "_")
        r3 == ReplaceAll(r2, ":", "_")
        r4 == ReplaceAll(r3, "*", "_")
        r5 == ReplaceAll(r4, "?", "_")
        r6 == ReplaceAll(r5, "\"", "_")
        r7 == ReplaceAll(r6, "<", "_")
        r8 == ReplaceAll(r7, ">", "_")
        r9 == ReplaceAll(r8, "|", "_")
    IN ReplaceAll(r9, " ", "")

\* sanitizeFilename: the nine invalid characters, then the space
sanitizeFilename(name) ==
    LET r1 == ReplaceAll(name, "/", "_")
        r2 == ReplaceAll(r1, "\\", "_")
        r3 == ReplaceAll(r2, ":", "_")
        r4 == ReplaceAll(r3, "*", "_")
        r5 == ReplaceAll(r4, "?", "_")
        r6 == ReplaceAll(r5, "\"", "_")
        r7 == ReplaceAll(r6, "<", "_")
        r8 == ReplaceAll(r7, ">", "_")
        r9 == ReplaceAll(r8, "|", "_")
    IN ReplaceAll(r9, " ", "_")

\* VSCodeLaunchToJetBrainsConverter.sanitizeFilename: the same ten characters
Launch_sanitizeFilename(name) ==
    LET r1 == ReplaceAll(name, "/", "_")
        r2 == ReplaceAll(r1, "\\", "_")
        r3 == ReplaceAll(r2, ":", "_")
        r4 == ReplaceAll(r3, "*", "_")
        r5 == ReplaceAll(r4, "?", "_")
        r6 == ReplaceAll(r5, "\"", "_")
        r7 == ReplaceAll(r6, "<", "_")
        r8 == ReplaceAll(r7, ">", "_")
        r9 == ReplaceAll(r8, "|", "_")
    IN ReplaceAll(r9, " ", "_")

\* VSCodeToJetBrainsConverter.extractMainClass, from argument i on
RECURSIVE extractMainClassFrom(_, _)
extractMainClassFrom(args, i) ==
    IF i > Len(args) THEN "Main"
    ELSE IF IsClassLike(args[i]) THEN args[i]
    ELSE IF args[i] \in {"-cp", "--class-path"} /\ i + 1 <= Len(args)
         THEN extractMainClassFrom(args, i + 2)
         ELSE extractMainClassFrom(args, i + 1)

extractMainClass(task) == extractMainClassFrom(task.Args, 1)

\* the environment entries in the order the keys are visited
EnvVarsInOrder(env, keys, Convert(_)) ==
    [i \in DOMAIN keys |-> Option(keys[i], Convert(env[keys[i]]))]

\* VSCodeToJetBrainsConverter.convertSingleTask.  keyOrder is the order in
\* which Go's range visits the keys of task.Env (unspecified by the language).
convertSingleTask(task, keyOrder) ==
    LET configType == determineConfigType(task)
        typeOptions ==
            CASE configType = "Application" ->
                    <<Option("MAIN_CLASS_NAME", extractMainClass(task))>>
                    \o (IF Len(task.Args) > 0
                        THEN <<Option("PROGRAM_PARAMETERS", Join(task.Args, " "))>>
                        ELSE <<>>)
              [] configType = "GradleRunTask" ->
                    <<Option("TASK_NAME", Join(task.Args, " "))>>
              [] configType = "MavenRunConfiguration" ->
                    <<Option("GOALS", Join(task.Args, " "))>>
              [] OTHER ->
                    <<Option("SCRIPT_TEXT",
                             IF Len(task.Args) > 0
                             THEN task.Command \o " " \o Join(task.Args, " ")
                             ELSE task.Command)>>
        workingDir == IF task.Cwd = "" THEN "$PROJECT_DIR$"
                      ELSE convertVSCodeVariables(task.Cwd)
    IN [config |-> [Name |-> task.Name, Type |-> configType,
                    Options |-> typeOptions \o <<Option("WORKING_DIRECTORY", workingDir)>>,
                    EnvVars |-> EnvVarsInOrder(task.Env, keyOrder, convertVSCodeVariables)],
        err |-> NoError]

\* the orders in which the keys of an environment map can be visited
KeyOrders(env) ==
    {o \in [1..Cardinality(DOMAIN env) -> DOMAIN env] :
        \A i, j \in DOMAIN o : i # j => o[i] # o[j]}

\* the JetBrainsComponent that writeJetBrainsConfig marshals
Component(config) == [Name |-> "ProjectRunConfigurationManager", Configuration |-> config]

\* an invocation in progress: storage, standard output, the converted count
Progress(sto, out, n) == [storage |-> sto, out |-> out, converted |-> n]

\* for i, task := range tasks: Step applied to each task in turn, from index i on
RECURSIVE RangeFrom(_, _, _, _)
RangeFrom(Step(_, _, _), tasks, i, st) ==
    IF i > Len(tasks) THEN st
    ELSE RangeFrom(Step, tasks, i + 1, Step(i, tasks[i], st))

Range(Step(_, _, _), tasks, st) == RangeFrom(Step, tasks, 1, st)

\* the progress with one more line of output
AppendLine(st, line) == [st EXCEPT !.out = Append(@, line)]

\* after writeJetBrainsRunConfig: a warning on failure, the file otherwise
WriteOutcome(c, st, task, outputPath, w) ==
    IF ~w.ok
    THEN AppendLine(st, Line("warning: failed to write", task.Name))
    ELSE Progress(w.storage,
                  IF c.verbose THEN Append(st.out, Line("created", outputPath)) ELSE st.out,
                  st.converted + 1)

\* a faulty loop body that consumes the argument list of the task it visits
Visited_ArgsConsumed(task) == [task EXCEPT !.Args = <<>>]

\* the task behind the pointer once a conversion loop has visited it: the
\* loop bodies and the functions they call read its fields and assign none
Visited(task) == task

\* a faulty failure branch that drops the diagnostic
SkipSilently(st, task) == st

\* the failure branch of every conversion loop: one warning, then continue
SkipWithWarning(st, task) ==
    [st EXCEPT !.out = Append(@, Line("warning: failed to convert", task.Name))]

\* a faulty variant that creates the directory even on a dry run
EnsureOutputDir_Unguarded(sto, outputDir, dryRun) == MkdirAll(sto, outputDir)

\* the guarded os.MkdirAll of the run-configuration converters: skipped on a dry run
EnsureOutputDir(sto, outputDir, dryRun) ==
    IF dryRun THEN [ok |-> TRUE, storage |-> sto] ELSE MkdirAll(sto, outputDir)

\* the body of the loop of VSCodeToJetBrainsConverter.ConvertTasks for one task
VSCodeToJetBrains_Step(c, outputDir, dryRun, keyOrder, task, st) ==
    IF ~HasPrefix(task.Type, "vscode-task")
    THEN [st EXCEPT !.out = IF c.verbose THEN Append(@, Line("skipping", task.Name)) ELSE @]
    ELSE
      LET r == convertSingleTask(task, keyOrder)
          filename == sanitizeFilename(task.Name) \o ".xml"
          filepath == JoinPath(outputDir, filename)
          out1 == IF c.verbose THEN Append(st.out, Line("converting", task.Name)) ELSE st.out
      IN
      IF r.err # NoError
      THEN SkipWithWarning(st, task)
      ELSE IF dryRun
      THEN Progress(st.storage, Append(out1, Line("dry run: would create", filepath)),
                    st.converted + 1)
      ELSE LET w == WriteFile(st.storage, filepath, Component(r.config)) IN
           IF ~w.ok
           THEN Progress(st.storage,
                         Append(out1, Line("warning: failed to write", task.Name)),
                         st.converted)
           ELSE Progress(w.storage, out1, st.converted + 1)

\* what an invocation returns and leaves behind
Result(st, err) ==
    [storage |-> st.storage, out |-> st.out, converted |-> st.converted, err |-> err]

\* VSCodeToJetBrainsConverter.ConvertTasks
VSCodeToJetBrains_ConvertTasks(c, tasks, dryRun, order, sto) ==
    LET outputDir == IF c.outputPath = ""
                     THEN JoinPath(JoinPath(c.projectRoot, ".idea"), "runConfigurations")
                     ELSE c.outputPath
        out0 == IF c.verbose
                THEN <<Line("converting tasks", ""), Line("output directory", outputDir)>>
                ELSE <<>>
        mk == EnsureOutputDir(sto, outputDir, dryRun)
    IN
    IF ~mk.ok
    THEN Result(Progress(sto, out0, 0), "failed to create output directory")
    ELSE
      LET st == Range(LAMBDA i, t, s :
                          VSCodeToJetBrains_Step(c, outputDir, dryRun, order[i], t, s),
                      tasks, Progress(mk.storage, out0, 0))
      IN Result([st EXCEPT !.out = IF c.verbose THEN Append(@, Line("summary", "")) ELSE @],
                NoError)

(***************************************************************************)
(* VSCode launch configurations -> JetBrains run configurations.           *)
(***************************************************************************)
\* the bytes of environment variable names, in byte order
NameBytes == "0123456789ABCDEFGHIJKLMNOPQRSTUVWXYZ_abcdefghijklmnopqrstuvwxyz"

\* the position of a character in byte order (other bytes are not used in names)
ByteRank(c) ==
    Min({i \in 1..Len(NameBytes) : CharAt(NameBytes, i) = c} \cup {Len(NameBytes) + 1})

\* Go's string comparison a < b
RECURSIVE StringLess(_, _)
StringLess(a, b) ==
    IF b = "" THEN FALSE
    ELSE IF a = "" THEN TRUE
    ELSE IF Head(a) = Head(b) THEN StringLess(Tail(a), Tail(b))
    ELSE ByteRank(Head(a)) < ByteRank(Head(b))

\* sort.Strings over the keys of a map
RECURSIVE SortStrings(_)
SortStrings(keys) ==
    IF keys = {} THEN <<>>
    ELSE LET least == CHOOSE k \in keys : \A o \in keys \ {k} : StringLess(k, o)
         IN <<least>> \o SortStrings(keys \ {least})

\* the element at index i, or "" when the search found none (i = 0)
ElementOrEmpty(seq, i) == IF i = 0 THEN "" ELSE seq[i]

\* the first element of seq that passes Test, or ""
FirstThat(seq, Test(_)) == ElementOrEmpty(seq, FirstIndex(seq, Test))

\* the index of the first part equal to key that has a successor, or 0
KeyIndex(parts, key) ==
    Min({j \in 1..Len(parts) : parts[j] = key /\ j + 1 <= Len(parts)} \cup {Len(parts) + 1})
    % (Len(parts) + 1)

\* the value that follows key in the command, quotes trimmed, else the
\* first part of the command or argument that passes Test, else ""
KeyedOrFirst(command, parts, args, key, k, Test(_)) ==
    IF Contains(command, key) /\ k # 0
    THEN Trim(parts[k + 1], "\"")
    ELSE FirstThat(parts \o args, Test)

IsProgramLike(part) ==
    Contains(part, "/") \/ Contains(part, "\\") \/ HasSuffix(part, ".js")
    \/ HasSuffix(part, ".ts") \/ HasSuffix(part, ".py")

\* the searches of a launch task's command for the word after key
ExtractFromLaunch(task, parts, key, Test(_)) ==
    KeyedOrFirst(task.Command, parts, task.Args, key, KeyIndex(parts, key), Test)

\* VSCodeLaunchToJetBrainsConverter.extractMainClassFromLaunch
extractMainClassFromLaunch(task) ==
    ExtractFromLaunch(task, Fields(task.Command), "mainClass", IsClassLikeNoJar)

\* VSCodeLaunchToJetBrainsConverter.extractProgramFromLaunch
extractProgramFromLaunch(task) ==
    ExtractFromLaunch(task, Fields(task.Command), "program", IsProgramLike)

\* VSCodeLaunchToJetBrainsConverter.filterArgsExcluding
filterArgsExcluding(args, exclude) == SelectSeq(args, LAMBDA a : a # exclude)

\* the package path named after "run", "." for the project directory
GoPackage(packagePath) == IF packagePath = "$PROJECT_DIR$" THEN "." ELSE packagePath

\* the index of the first "run" argument that has a successor, or 0
RunIndex(args) == KeyIndex(args, "run")

PackageAfter(args, i) ==
    IF i = 0 THEN "." ELSE GoPackage(Launch_convertVSCodeVariables(args[i + 1]))

\* VSCodeLaunchToJetBrainsConverter.extractGoPackageFromLaunch
extractGoPackageFromLaunch(task) == PackageAfter(task.Args, RunIndex(task.Args))

\* VSCodeLaunchToJetBrainsConverter.filterGoArgsFromLaunch
RECURSIVE filterGoArgs(_, _)
filterGoArgs(args, skipNext) ==
    IF args = <<>> THEN <<>>
    ELSE IF skipNext THEN filterGoArgs(Tail(args), FALSE)
    ELSE IF Head(args) = "run" THEN filterGoArgs(Tail(args), TRUE)
    ELSE <<Head(args)>> \o filterGoArgs(Tail(args), FALSE)

filterGoArgsFromLaunch(task) == filterGoArgs(task.Args, FALSE)

\* the options appended by a type-specific add...Options, with its error
Added(options, err) == [options |-> options, err |-> err]

ParametersOption(name, args) ==
    IF Len(args) > 0 THEN <<Option(name, Join(args, " "))>> ELSE <<>>

\* the options for a main class, or the error when none was found
MainClassOptions(mainClass, args) ==
    IF mainClass = "" THEN Added(<<>>, "could not determine main class")
    ELSE Added(<<Option("MAIN_CLASS_NAME", mainClass)>>
               \o ParametersOption("PROGRAM_PARAMETERS",
                                   filterArgsExcluding(args, mainClass)),
               NoError)

\* VSCodeLaunchToJetBrainsConverter.addJavaApplicationOptions
addJavaApplicationOptions(task) ==
    MainClassOptions(extractMainClassFromLaunch(task), task.Args)

\* "." when no package was extracted
PackageOrDot(extracted) == IF extracted = "" THEN "." ELSE extracted

\* VSCodeLaunchToJetBrainsConverter.addGoApplicationOptions
addGoApplicationOptions(task) ==
    Added(<<Option("PACKAGE", PackageOrDot(extractGoPackageFromLaunch(task))),
            Option("RUN_KIND", "PACKAGE")>>
          \o ParametersOption("PROGRAM_PARAMETERS", filterGoArgsFromLaunch(task)),
          NoError)

\* the options for a program file, or the error when none was found
ProgramOptions(program, fileOption, parametersOption, args) ==
    IF program = "" THEN Added(<<>>, "could not determine program")
    ELSE Added(<<Option(fileOption, Launch_convertVSCodeVariables(program))>>
               \o ParametersOption(parametersOption, args),
               NoError)

\* VSCodeLaunchToJetBrainsConverter.addNodeJSOptions
addNodeJSOptions(task) ==
    ProgramOptions(extractProgramFromLaunch(task), "PATH_TO_JS_FILE",
                   "APPLICATION_PARAMETERS", task.Args)

\* VSCodeLaunchToJetBrainsConverter.addPythonOptions
addPythonOptions(task) ==
    IF Len(task.Args) >= 2 /\ task.Args[1] = "-m"
    THEN Added(<<Option("SCRIPT_NAME", "python"),
                 Option("PARAMETERS", Join(task.Args, " "))>>, NoError)
    ELSE ProgramOptions(extractProgramFromLaunch(task), "SCRIPT_NAME", "PARAMETERS",
                        task.Args)

\* VSCodeLaunchToJetBrainsConverter.addGenericOptions
addGenericOptions(task) ==
    IF task.Command # ""
    THEN Added(<<Option("PROGRAM_PARAMETERS",
                        IF Len(task.Args) > 0
                        THEN task.Command \o " " \o Join(task.Args, " ")
                        ELSE task.Command)>>, NoError)
    ELSE Added(ParametersOption("PROGRAM_PARAMETERS", task.Args), NoError)

\* VSCodeLaunchToJetBrainsConverter.addConfigurationOptions
addConfigurationOptions(task, configType) ==
    CASE configType = "GoApplicationRunConfiguration" -> addGoApplicationOptions(task)
      [] configType = "Application" -> addJavaApplicationOptions(task)
      [] configType = "NodeJSConfigurationType" -> addNodeJSOptions(task)
      [] configType = "PythonConfigurationType" -> addPythonOptions(task)
      [] OTHER -> addGenericOptions(task)

\* the working directory option both run-configuration converters append
WorkingDirectory(cwd, Convert(_)) ==
    Option("WORKING_DIRECTORY", IF cwd = "" THEN "$PROJECT_DIR$" ELSE Convert(cwd))

\* convertSingleLaunchConfig once the type-specific options are known
LaunchConfigWithOptions(task, configType, added) ==
    IF added.err # NoError THEN [config |-> <<>>, err |-> added.err]
    ELSE [config |-> [Name |-> task.Name, Type |-> configType,
                      Options |-> Append(added.options,
                                         WorkingDirectory(task.Cwd,
                                                          Launch_convertVSCodeVariables)),
                      EnvVars |-> EnvVarsInOrder(task.Env, SortStrings(DOMAIN task.Env),
                                                 Launch_convertVSCodeVariables)],
          err |-> NoError]

\* convertSingleLaunchConfig once the configuration type is known
LaunchConfigOfType(task, t) ==
    IF t.err # NoError THEN [config |-> <<>>, err |-> t.err]
    ELSE LaunchConfigWithOptions(task, t.configType,
                                 addConfigurationOptions(task, t.configType))

\* VSCodeLaunchToJetBrainsConverter.convertSingleLaunchConfig
convertSingleLaunchConfig(task) ==
    LaunchConfigOfType(task, determineJetBrainsConfigType(task))

\* the rest of the loop body of ConvertLaunchConfigs, once the task is converted
LaunchWriteStep(c, outputPath, filename, dryRun, task, st, r) ==
    IF r.err # NoError
    THEN SkipWithWarning(st, task)
    ELSE IF dryRun
    THEN Progress(st.storage,
                  st.out \o <<Line("dry run: would create", outputPath),
                              Line("preview", filename)>>,
                  st.converted + 1)
    ELSE WriteOutcome(c, st, task, outputPath, WriteFile(st.storage, outputPath, Component(r.config)))

\* the file name ConvertLaunchConfigs gives a task's configuration
LaunchFilename(task) == Launch_sanitizeFilename(task.Name) \o ".xml"

\* the body of the loop of ConvertLaunchConfigs for one launch task
VSCodeLaunchToJetBrains_Step(c, outputDir, dryRun, task, st) ==
    LaunchWriteStep(c, JoinPath(outputDir, LaunchFilename(task)), LaunchFilename(task),
                    dryRun, task, st, convertSingleLaunchConfig(task))

\* the default output directory of the run-configuration converters
OutputDir(c) ==
    IF c.outputPath = ""
    THEN JoinPath(JoinPath(c.projectRoot, ".idea"), "runConfigurations")
    ELSE c.outputPath

\* ConvertLaunchConfigs after the filter found launch tasks
ConvertLaunchTasks(c, launchTasks, outputDir, dryRun, sto, out1, mk) ==
    IF ~mk.ok
    THEN Result(Progress(sto, out1, 0), "failed to create output directory")
    ELSE Result(AppendLine(Range(LAMBDA i, t, s :
                                   VSCodeLaunchToJetBrains_Step(c, outputDir, dryRun, t, s),
                                 launchTasks, Progress(mk.storage, out1, 0)),
                           Line("summary", "")),
                NoError)

\* VSCodeLaunchToJetBrainsConverter.ConvertLaunchConfigs
ConvertLaunchConfigs(c, tasks, dryRun, sto) ==
    LET launchTasks == SelectSeq(tasks, LAMBDA t : t.Type = TypeVSCodeLaunch)
        out0 == IF c.verbose THEN <<Line("converting launch configurations", "")>> ELSE <<>>
        out1 == IF c.verbose
                THEN out0 \o <<Line("converting filtered", ""),
                               Line("output directory", OutputDir(c))>>
                ELSE out0
    IN
    IF Len(launchTasks) = 0
    THEN Result(Progress(sto, Append(out0, Line("nothing to convert", "")), 0), NoError)
    ELSE ConvertLaunchTasks(c, launchTasks, OutputDir(c), dryRun, sto, out1,
                            EnsureOutputDir(sto, OutputDir(c), dryRun))

(***************************************************************************)
(* JetBrains run configurations -> VSCode tasks.json / launch.json         *)
(* (one file for all tasks).                                               *)
(***************************************************************************)
\* the converted values of an environment map (a Go map: no order)
ConvertEnv(env, Convert(_)) == [k \in DOMAIN env |-> Convert(env[k])]

\* JetBrainsToVSCodeConverter.determineVSCodeTaskDetails
determineVSCodeTaskDetails(task) ==
    LET parts == Fields(task.Command) IN
    IF Len(parts) = 0
    THEN [Command |-> "", Args |-> <<>>, err |-> "empty command in task"]
    ELSE [Command |-> parts[1], Args |-> Tail(parts) \o task.Args, err |-> NoError]

\* JetBrainsToVSCodeConverter.determineTaskGroup
determineTaskGroup(task) ==
    LET taskName == ToLower(task.Name)
        command == ToLower(task.Command)
    IN
    IF Contains(taskName, "build") \/ Contains(command, "build")
       \/ (Contains(command, "gradle")
           /\ (Contains(command, "build") \/ Contains(command, "assemble")))
       \/ (Contains(command, "mvn") /\ Contains(command, "compile"))
       \/ Contains(command, "make")
    THEN [kind |-> "build",
          isDefault |-> Contains(taskName, "build") /\ ~Contains(taskName, "test")]
    ELSE IF Contains(taskName, "test") \/ Contains(command, "test")
            \/ (Contains(command, "gradle") /\ Contains(command, "test"))
            \/ (Contains(command, "mvn") /\ Contains(command, "test"))
            \/ (Contains(command, "npm") /\ Contains(command, "test"))
    THEN [kind |-> "test"]
    ELSE [kind |-> "none"]

\* VSCodeTaskOptions, nil when neither cwd nor env is set
TaskOptions(task) ==
    [present |-> task.Cwd # "" \/ DOMAIN task.Env # {},
     Cwd |-> IF task.Cwd # "" THEN convertJetBrainsVariables(task.Cwd) ELSE "",
     Env |-> ConvertEnv(task.Env, convertJetBrainsVariables)]

\* JetBrainsToVSCodeConverter.convertSingleTask
JetBrainsToVSCode_convertSingleTask(task) ==
    LET d == determineVSCodeTaskDetails(task) IN
    IF d.err # NoError THEN [vscodeTask |-> <<>>, err |-> d.err]
    ELSE [vscodeTask |-> [Label |-> task.Name, Type |-> "shell",
                          Command |-> d.Command, Args |-> d.Args,
                          Group |-> determineTaskGroup(task),
                          Options |-> TaskOptions(task)],
          err |-> NoError]

\* JetBrainsToVSCodeLaunchConverter.canConvertToLaunch
canConvertToLaunch(task) ==
    LET command == ToLower(task.Command) IN
    Contains(command, "java") \/ Contains(command, "node") \/ Contains(command, "python")
    \/ Contains(task.Name, "Application")
    \/ (Contains(task.Command, " ") /\ ~Contains(command, "gradle")
        /\ ~Contains(command, "mvn"))

\* JetBrainsToVSCodeLaunchConverter.convertSingleTaskToLaunch
convertSingleTaskToLaunch(task) ==
    LET d == determineLaunchType(task, NewLaunchConfig(task.Name)) IN
    IF d.err # NoError THEN [launchConfig |-> <<>>, err |-> d.err]
    ELSE [launchConfig |->
              [d.launchConfig EXCEPT
                  !.Cwd = IF task.Cwd # "" THEN convertJetBrainsVariables(task.Cwd)
                          ELSE "${workspaceFolder}",
                  !.Env = ConvertEnv(task.Env, convertJetBrainsVariables)],
          err |-> NoError]

\* a faulty variant that puts the newest entry first
PrependEntry(entries, entry) == <<entry>> \o entries

\* append(file.Tasks, *vscodeTask) / append(file.Configurations, *launchConfig)
AppendEntry(entries, entry) == Append(entries, entry)

\* the loop that collects the entries of the single output file
CollectStep(Convert(_), Entry(_), task, st) ==
    LET r == Convert(task) IN
    IF r.err # NoError
    THEN SkipWithWarning(st, task)
    ELSE [st EXCEPT !.entries = AppendEntry(@, Entry(r))]

\* the tail shared by both converters: dry-run preview, or MkdirAll and write
WriteSingleFile(c, outputPath, content, n, dryRun, out, sto) ==
    LET out1 == IF c.verbose THEN Append(out, Line("output file", outputPath)) ELSE out
        mk == MkdirAll(sto, Dir(outputPath))
        w == WriteFile(mk.storage, outputPath, content)
    IN
    IF dryRun
    THEN Result(Progress(sto, out1 \o <<Line("dry run: would create", outputPath),
                                        Line("preview", outputPath),
                                        Line("summary", "")>>, n), NoError)
    ELSE IF ~mk.ok
    THEN Result(Progress(sto, out1, n), "failed to create output directory")
    ELSE IF ~w.ok
    THEN Result(Progress(mk.storage, out1, n), "failed to write file")
    ELSE Result(Progress(w.storage,
                         (IF c.verbose THEN Append(out1, Line("created", outputPath))
                          ELSE out1) \o <<Line("summary", "")>>, n), NoError)

\* JetBrainsToVSCodeConverter.ConvertTasks
JetBrainsToVSCode_ConvertTasks(c, tasks, dryRun, sto) ==
    LET jetBrainsTasks == SelectSeq(tasks, LAMBDA t : t.Type = TypeJetBrains)
        out0 == IF c.verbose THEN <<Line("converting tasks", "")>> ELSE <<>>
        out1 == IF c.verbose THEN Append(out0, Line("converting filtered", "")) ELSE out0
        st == Range(LAMBDA i, t, s :
                        CollectStep(JetBrainsToVSCode_convertSingleTask,
                                    LAMBDA r : r.vscodeTask, t, s),
                    jetBrainsTasks, [out |-> out1, entries |-> <<>>])
        outputPath == IF c.outputPath = ""
                      THEN JoinPath(JoinPath(c.projectRoot, ".vscode"), "tasks.json")
                      ELSE c.outputPath
    IN
    IF Len(jetBrainsTasks) = 0
    THEN Result(Progress(sto, Append(out0, Line("nothing to convert", "")), 0), NoError)
    ELSE WriteSingleFile(c, outputPath, [Version |-> "2.0.0", Tasks |-> st.entries],
                         Len(st.entries), dryRun, st.out, sto)

\* JetBrainsToVSCodeLaunchConverter.ConvertToLaunch
ConvertToLaunch(c, tasks, dryRun, sto) ==
    LET jetBrainsTasks ==
            SelectSeq(tasks, LAMBDA t : t.Type = TypeJetBrains /\ canConvertToLaunch(t))
        out0 == IF c.verbose THEN <<Line("converting launch", "")>> ELSE <<>>
        out1 == IF c.verbose THEN Append(out0, Line("converting filtered", "")) ELSE out0
        st == Range(LAMBDA i, t, s :
                        CollectStep(convertSingleTaskToLaunch,
                                    LAMBDA r : r.launchConfig, t, s),
                    jetBrainsTasks, [out |-> out1, entries |-> <<>>])
        outputPath == IF c.outputPath = ""
                      THEN JoinPath(JoinPath(c.projectRoot, ".vscode"), "launch.json")
                      ELSE c.outputPath
    IN
    IF Len(jetBrainsTasks) = 0
    THEN Result(Progress(sto, out0 \o <<Line("nothing to convert", ""),
                                        Line("note", "")>>, 0), NoError)
    ELSE WriteSingleFile(c, outputPath,
                         [Version |-> "0.2.0", Configurations |-> st.entries],
                         Len(st.entries), dryRun, st.out, sto)

(***************************************************************************)
(* One conversion run of the command line tool over a project directory.   *)
(***************************************************************************)
\* the most tasks handed to one conversion
MaxTasks == 2

ProjectRoot == "/p"

EnvAB == [k \in {"A", "B"} |-> IF k = "A" THEN "${workspaceFolder}/a" ELSE "b"]

TaskPool ==
    { Task("a/b", TypeVSCodeTask, "java", <<"com.Main">>, "${workspaceFolder}", EnvAB,
           "build", "", "/p/.vscode/tasks.json"),
      Task("a:b", TypeVSCodeTask, "go", <<"build">>, "", NoEnv,
           "", "", "/p/.vscode/tasks.json"),
      Task("run", TypeVSCodeLaunch, "node", <<"/p/app.js">>, "", EnvAB,
           "", "node launch configuration", "/p/.vscode/launch.json"),
      Task("jv", TypeVSCodeLaunch, "java", <<>>, "", NoEnv,
           "", "", "/p/.vscode/launch.json"),
      Task("App", TypeJetBrains, "java", <<"com.Main">>, "$PROJECT_DIR$", NoEnv,
           "", "JetBrains Application configuration", "/p/.idea/runConfigurations/App.xml"),
      Task("Application", TypeJetBrains, "", <<>>, "", NoEnv,
           "", "JetBrains Application configuration", "/p/.idea/runConfigurations/A.xml"),
      Task("Gradle", TypeJetBrains, "gradle", <<"build">>, "", NoEnv,
           "", "JetBrains Gradle configuration", "/p/.idea/runConfigurations/G.xml") }

\* the task lists of a project: up to MaxTasks tasks, each listed once
TaskLists ==
    {tasks \in UNION {[1..n -> TaskPool] : n \in 0..MaxTasks} :
        \A i, j \in DOMAIN tasks : tasks[i] = tasks[j] => i = j}

\* a project never converted before, and one holding the output of an earlier run
FreshProject == [dirs |-> {"/", "/p"}, files |-> [p \in {} |-> <<>>], denied |-> {}]

ConvertedProject ==
    [dirs |-> {"/", "/p", "/p/.idea", "/p/.idea/runConfigurations", "/p/.vscode"},
     files |-> [p \in {"/p/.idea/runConfigurations/a_b.xml", "/p/.vscode/tasks.json"} |->
                   IF p = "/p/.vscode/tasks.json"
                   THEN [Version |-> "2.0.0",
                         Tasks |-> <<[Label |-> "old", Type |-> "shell", Command |-> "make",
                                      Args |-> <<>>, Group |-> [kind |-> "none"],
                                      Options |-> [present |-> FALSE, Cwd |-> "",
                                                   Env |-> NoEnv]]>>]
                   ELSE Component([Name |-> "old", Type |-> "ShellScript",
                                   Options |-> <<Option("SCRIPT_TEXT", "make")>>,
                                   EnvVars |-> <<>>])],
     denied |-> {}]

\* the paths the operating system may refuse (read-only locations): a
\* directory to create in the fresh project, a file to write in the other
InitialStorages ==
    {[FreshProject EXCEPT !.denied = d] : d \in {{}, {"/p/.idea"}, {"/p/.vscode"}}}
    \cup
    {[ConvertedProject EXCEPT !.denied = d] :
        d \in {{}, {"/p/.idea/runConfigurations/a_b.xml"}, {"/p/.vscode/launch.json"}}}

\* the --output flag: unset, or a location outside the project
OutputPaths == {"", "/o/x"}

\* the key orders Go's map iteration may produce, one per task of the list
OrdersFor(tasks) ==
    {o \in [DOMAIN tasks -> UNION {KeyOrders(t.Env) : t \in TaskPool}] :
        \A i \in DOMAIN tasks : o[i] \in KeyOrders(tasks[i].Env)}

NoArg == [fn |-> "none"]

Init ==
    /\ storage \in InitialStorages
    /\ call = NoCall
    /\ arg = NoArg
    /\ ret = Idle

\* the record of a finished invocation: its inputs, the storage before it,
\* what it returned and printed, and the caller's tasks after it
Invocation(conv, tasks, dryRun, verbose, outputPath, order, before, r) ==
    [conv |-> conv, tasks |-> tasks, dryRun |-> dryRun, verbose |-> verbose,
     outputPath |-> outputPath, order |-> order, before |-> before,
     err |-> r.err, converted |-> r.converted, out |-> r.out,
     after |-> [i \in DOMAIN tasks |-> Visited(tasks[i])]]

\* the result of running converter conv
Invoke(conv, tasks, dryRun, verbose, outputPath, order, sto) ==
    LET c == Converter(ProjectRoot, outputPath, verbose) IN
    CASE conv = "VSCodeToJetBrains" -> VSCodeToJetBrains_ConvertTasks(c, tasks, dryRun, order, sto)
      [] conv = "VSCodeLaunchToJetBrains" -> ConvertLaunchConfigs(c, tasks, dryRun, sto)
      [] conv = "JetBrainsToVSCode" -> JetBrainsToVSCode_ConvertTasks(c, tasks, dryRun, sto)
      [] conv = "JetBrainsToVSCodeLaunch" -> ConvertToLaunch(c, tasks, dryRun, sto)

\* the invocation ends: its effect on storage and its record
Commit(conv, tasks, dryRun, verbose, outputPath, order, r) ==
    /\ storage' = r.storage
    /\ call' = Invocation(conv, tasks, dryRun, verbose, outputPath, order, storage, r)

NoOrder(tasks) == [i \in DOMAIN tasks |-> <<>>]

\* taskporter port --from vscode-tasks --to jetbrains
ConvertVSCodeTasksToJetBrains ==
    /\ call = NoCall
    /\ \E tasks \in TaskLists, dryRun \in BOOLEAN, verbose \in BOOLEAN,
          outputPath \in OutputPaths :
         \E order \in OrdersFor(tasks) :
           Commit("VSCodeToJetBrains", tasks, dryRun, verbose, outputPath, order,
                  VSCodeToJetBrains_ConvertTasks(Converter(ProjectRoot, outputPath, verbose),
                                                 tasks, dryRun, order, storage))
    /\ UNCHANGED <<arg, ret>>

\* taskporter port --from vscode-launch --to jetbrains
ConvertVSCodeLaunchToJetBrains ==
    /\ call = NoCall
    /\ \E tasks \in TaskLists, dryRun \in BOOLEAN, verbose \in BOOLEAN,
          outputPath \in OutputPaths :
           Commit("VSCodeLaunchToJetBrains", tasks, dryRun, verbose, outputPath,
                  NoOrder(tasks),
                  ConvertLaunchConfigs(Converter(ProjectRoot, outputPath, verbose),
                                       tasks, dryRun, storage))
    /\ UNCHANGED <<arg, ret>>

\* taskporter port --from jetbrains --to vscode-tasks
ConvertJetBrainsToVSCodeTasks ==
    /\ call = NoCall
    /\ \E tasks \in TaskLists, dryRun \in BOOLEAN, verbose \in BOOLEAN,
          outputPath \in OutputPaths :
           Commit("JetBrainsToVSCode", tasks, dryRun, verbose, outputPath,
                  NoOrder(tasks),
                  JetBrainsToVSCode_ConvertTasks(Converter(ProjectRoot, outputPath, verbose),
                                                 tasks, dryRun, storage))
    /\ UNCHANGED <<arg, ret>>

\* taskporter port --from jetbrains --to vscode-launch
ConvertJetBrainsToVSCodeLaunch ==
    /\ call = NoCall
    /\ \E tasks \in TaskLists, dryRun \in BOOLEAN, verbose \in BOOLEAN,
          outputPath \in OutputPaths :
           Commit("JetBrainsToVSCodeLaunch", tasks, dryRun, verbose, outputPath,
                  NoOrder(tasks),
                  ConvertToLaunch(Converter(ProjectRoot, outputPath, verbose),
                                  tasks, dryRun, storage))
    /\ UNCHANGED <<arg, ret>>

Next ==
    \/ ConvertVSCodeTasksToJetBrains
    \/ ConvertVSCodeLaunchToJetBrains
    \/ ConvertJetBrainsToVSCodeTasks
    \/ ConvertJetBrainsToVSCodeLaunch

Spec == Init /\ [][Next]_vars

(***************************************************************************)
(* Properties of a conversion run.                                         *)
(***************************************************************************)
\* the task kinds each converter accepts
AcceptedBy(conv, t) ==
    CASE conv = "VSCodeToJetBrains" -> HasPrefix(t.Type, "vscode-task")
      [] conv = "VSCodeLaunchToJetBrains" -> t.Type = TypeVSCodeLaunch
      [] conv = "JetBrainsToVSCode" -> t.Type = TypeJetBrains
      [] conv = "JetBrainsToVSCodeLaunch" -> t.Type = TypeJetBrains /\ canConvertToLaunch(t)

\* what converter conv makes of one task, visiting its environment in keyOrder
Converted(conv, t, keyOrder) ==
    CASE conv = "VSCodeToJetBrains" ->
             [entry |-> convertSingleTask(t, keyOrder).config,
              err |-> convertSingleTask(t, keyOrder).err]
      [] conv = "VSCodeLaunchToJetBrains" ->
             [entry |-> convertSingleLaunchConfig(t).config,
              err |-> convertSingleLaunchConfig(t).err]
      [] conv = "JetBrainsToVSCode" ->
             [entry |-> JetBrainsToVSCode_convertSingleTask(t).vscodeTask,
              err |-> JetBrainsToVSCode_convertSingleTask(t).err]
      [] conv = "JetBrainsToVSCodeLaunch" ->
             [entry |-> convertSingleTaskToLaunch(t).launchConfig,
              err |-> convertSingleTaskToLaunch(t).err]

\* the positions of the input whose task the converter accepts
AcceptedAt(conv, tasks) == {i \in DOMAIN tasks : AcceptedBy(conv, tasks[i])}

\* the accepted positions whose conversion fails
FailingAt(conv, tasks, order) ==
    {i \in AcceptedAt(conv, tasks) : Converted(conv, tasks[i], order[i]).err # NoError}

\* the elements of seq at the positions in keep, in order, from position i on
RECURSIVE KeepFrom(_, _, _)
KeepFrom(seq, keep, i) ==
    IF i > Len(seq) THEN <<>>
    ELSE (IF i \in keep THEN <<seq[i]>> ELSE <<>>) \o KeepFrom(seq, keep, i + 1)

Keep(seq, keep) == KeepFrom(seq, keep, 1)

\* how many lines of out are the conversion warning for a task of this name
WarningsFor(out, name) ==
    Cardinality({i \in DOMAIN out : out[i] = Line("warning: failed to convert", name)})

\* the single-file converters and the file-per-task converters
SingleFileConverters == {"JetBrainsToVSCode", "JetBrainsToVSCodeLaunch"}
FilePerTaskConverters == {"VSCodeToJetBrains", "VSCodeLaunchToJetBrains"}

\* the path of the one file a single-file converter writes
SingleFilePath(conv, outputPath) ==
    IF outputPath # "" THEN outputPath
    ELSE IF conv = "JetBrainsToVSCode" THEN "/p/.vscode/tasks.json"
    ELSE "/p/.vscode/launch.json"

\* the content of that file for a sequence of entries
SingleFile(conv, entries) ==
    IF conv = "JetBrainsToVSCode" THEN [Version |-> "2.0.0", Tasks |-> entries]
    ELSE [Version |-> "0.2.0", Configurations |-> entries]

\* the paths whose content differs between two storages
ChangedPaths(before, after) ==
    {p \in DOMAIN before.files \cup DOMAIN after.files :
        \/ p \notin DOMAIN before.files
        \/ p \notin DOMAIN after.files
        \/ before.files[p] # after.files[p]}

\* C1: a dry-run invocation of any of the four converters leaves storage
\* exactly as it found it (no file or directory created, modified or
\* removed), whatever the input and the outcome.
C1_DryRunLeavesStorage ==
    (call # NoCall /\ call.dryRun) => storage = call.before

\* a dry run over a project never converted before, with one task converted
\* and one task that failed
C1_DryRunWitness ==
    /\ call # NoCall
    /\ call.dryRun
    /\ call.before.dirs = FreshProject.dirs
    /\ call.converted > 0
    /\ \E i \in DOMAIN call.out : call.out[i].kind = "warning: failed to convert"

\* the conversion loop ran: the file-per-task converters create the output
\* directory first and return before the loop when that fails
LoopRan == call.conv \in SingleFileConverters \/ call.err = NoError

\* C2: when the conversion of accepted tasks fails, each failing task gets
\* exactly one skip warning and no output, no conversion error is returned,
\* and the other tasks are converted exactly as in a run without the failing
\* tasks: the same converted count and the same storage.
C2_FailureIsolated ==
    (call # NoCall /\ LoopRan) =>
      LET failing == FailingAt(call.conv, call.tasks, call.order)
          keep == DOMAIN call.tasks \ failing
          rest == Keep(call.tasks, keep)
          without == Invoke(call.conv, rest, call.dryRun, call.verbose, call.outputPath,
                            Keep(call.order, keep), call.before)
      IN failing # {} =>
           /\ \A i \in failing :
                WarningsFor(call.out, call.tasks[i].Name)
                  = Cardinality({j \in failing : call.tasks[j].Name = call.tasks[i].Name})
           /\ call.before.denied = {} => call.err = NoError
           /\ call.converted = without.converted
           /\ AcceptedAt(call.conv, rest) # {} => storage = without.storage
           /\ AcceptedAt(call.conv, rest) = {} =>
                \A p \in ChangedPaths(call.before, storage) :
                    /\ p \in DOMAIN storage.files
                    /\ storage.files[p] = SingleFile(call.conv, <<>>)

\* a run that wrote output although one of its tasks failed to convert
C2_FailureWitness ==
    /\ call # NoCall
    /\ ~call.dryRun
    /\ call.err = NoError
    /\ FailingAt(call.conv, call.tasks, call.order) # {}
    /\ call.converted > 0
    /\ ChangedPaths(call.before, storage) # {}

\* the entries the input yields: one per accepted task that converts, in order
RECURSIVE EntriesFrom(_, _, _)
EntriesFrom(conv, tasks, i) ==
    IF i > Len(tasks) THEN <<>>
    ELSE (IF AcceptedBy(conv, tasks[i]) /\ Converted(conv, tasks[i], <<>>).err = NoError
          THEN <<Converted(conv, tasks[i], <<>>).entry>> ELSE <<>>)
         \o EntriesFrom(conv, tasks, i + 1)

\* the run changed exactly the single output file, which now holds one entry
\* per converted task in input order
WroteSingleFile ==
    /\ ChangedPaths(call.before, storage) \subseteq {SingleFilePath(call.conv, call.outputPath)}
    /\ SingleFilePath(call.conv, call.outputPath) \in DOMAIN storage.files
    /\ storage.files[SingleFilePath(call.conv, call.outputPath)]
         = SingleFile(call.conv, EntriesFrom(call.conv, call.tasks, 1))

\* C4 as stated: every successful conversion of JetBrains tasks to tasks.json
\* or launch.json writes exactly one file holding one entry per converted
\* task, in input order.
C4_AlwaysOneFile ==
    (call # NoCall /\ call.conv \in SingleFileConverters /\ ~call.dryRun
     /\ call.err = NoError)
    => WroteSingleFile

\* C4: a successful conversion of JetBrains tasks to tasks.json or launch.json
\* whose input holds at least one task the converter accepts writes exactly
\* one file holding one entry per converted task, in input order.
C4_OneFileWhenAccepted ==
    (call # NoCall /\ call.conv \in SingleFileConverters /\ ~call.dryRun
     /\ call.err = NoError /\ AcceptedAt(call.conv, call.tasks) # {})
    => WroteSingleFile

\* two different tasks converted into one file
C4_TwoEntriesWitness ==
    /\ call # NoCall
    /\ call.conv \in SingleFileConverters
    /\ ~call.dryRun
    /\ call.err = NoError
    /\ call.converted = 2
    /\ call.tasks[1] # call.tasks[2]

\* C5: a successful conversion to run configurations of accepted tasks with
\* pairwise distinct names, all converted, leaves one file per task: the
\* tasks can be matched one-to-one with files holding their configuration.
C5_OneFilePerTask ==
    (call # NoCall /\ call.conv \in FilePerTaskConverters /\ ~call.dryRun
     /\ call.err = NoError
     /\ AcceptedAt(call.conv, call.tasks) = DOMAIN call.tasks
     /\ call.converted = Len(call.tasks)
     /\ \A i, j \in DOMAIN call.tasks : i # j => call.tasks[i].Name # call.tasks[j].Name)
    => \E f \in [DOMAIN call.tasks -> DOMAIN storage.files] :
          /\ \A i, j \in DOMAIN call.tasks : i # j => f[i] # f[j]
          /\ \A i \in DOMAIN call.tasks :
                storage.files[f[i]]
                  = Component(Converted(call.conv, call.tasks[i], call.order[i]).entry)

(***************************************************************************)
(* The VSCode parsers: tasks.json and launch.json to Canonical Tasks.      *)
(***************************************************************************)
\* JSON values of the fields whose JSON type the file decides
JAbsent == [kind |-> "absent"]
JString(s) == [kind |-> "string", s |-> s]
JObject(kindField) == [kind |-> "object", kindField |-> kindField]
JArray(items) == [kind |-> "array", items |-> items]

\* json.Unmarshal into a []string field: absent or an array of strings
DecodesAsStrings(v) ==
    \/ v.kind = "absent"
    \/ (v.kind = "array" /\ \A i \in DOMAIN v.items : v.items[i].kind = "string")

\* the decoded []string
StringsOf(v) ==
    IF v.kind = "array" THEN [i \in DOMAIN v.items |-> v.items[i].s] ELSE <<>>

\* filepath.IsAbs
IsAbs(path) == HasPrefix(path, "/")

\* the replacement of both workspace variables by the project root
ReplaceWorkspace(projectRoot, path) ==
    ReplaceAll(ReplaceAll(path, "${workspaceFolder}", projectRoot),
               "${workspaceRoot}", projectRoot)

\* relative paths are joined to the project root (the paths used here hold
\* no "." or ".." element for filepath.Join to clean)
Absolute(projectRoot, resolved) ==
    IF IsAbs(resolved) THEN resolved ELSE JoinPath(projectRoot, resolved)

\* TasksParser.resolveWorkspacePath and LaunchParser.resolveWorkspacePath
resolveWorkspacePath(projectRoot, path) ==
    Absolute(projectRoot, ReplaceWorkspace(projectRoot, path))

\* TasksParser.parseGroup
parseGroup(group) ==
    CASE group.kind = "string" -> group.s
      [] group.kind = "object" -> group.kindField
      [] OTHER -> ""

\* a faulty parser that keeps the cwd as the file spells it
CwdOrRoot_Unresolved(projectRoot, cwd) == cwd

\* the task's working directory: the resolved cwd, the project root by default
CwdOrRoot(projectRoot, cwd) ==
    IF cwd = "" THEN projectRoot ELSE resolveWorkspacePath(projectRoot, cwd)

\* TasksParser.convertTask
convertTask(projectRoot, vscodeTask, sourceFile) ==
    [task |-> Task(vscodeTask.label, TypeVSCodeTask, vscodeTask.command,
                   StringsOf(vscodeTask.args),
                   CwdOrRoot(projectRoot, vscodeTask.cwd), vscodeTask.env,
                   parseGroup(vscodeTask.group), vscodeTask.detail, sourceFile),
     err |-> NoError]

\* the program argument of a launch configuration
ProgramArgs(projectRoot, vscodeConfig) ==
    <<resolveWorkspacePath(projectRoot, vscodeConfig.program)>>
    \o StringsOf(vscodeConfig.args)

\* LaunchParser.handleGoLaunchConfig
handleGoLaunchConfig(projectRoot, vscodeConfig) ==
    CASE vscodeConfig.request = "launch" ->
           [Command |-> "go",
            Args |-> IF vscodeConfig.program # ""
                     THEN <<"run">> \o ProgramArgs(projectRoot, vscodeConfig)
                     ELSE <<"run", ".">> \o StringsOf(vscodeConfig.args),
            err |-> NoError]
      [] vscodeConfig.request = "attach" ->
           [Command |-> "", Args |-> <<>>, err |-> "go attach mode not yet supported"]
      [] OTHER ->
           [Command |-> "", Args |-> <<>>, err |-> "unsupported Go request type"]

\* handleNodeLaunchConfig and handlePythonLaunchConfig differ in the command
handleProgramLaunchConfig(projectRoot, vscodeConfig, command) ==
    CASE vscodeConfig.request = "launch" ->
           IF vscodeConfig.program # ""
           THEN [Command |-> command, Args |-> ProgramArgs(projectRoot, vscodeConfig),
                 err |-> NoError]
           ELSE [Command |-> command, Args |-> <<>>,
                 err |-> "launch config requires program path"]
      [] vscodeConfig.request = "attach" ->
           [Command |-> "", Args |-> <<>>, err |-> "attach mode not yet supported"]
      [] OTHER ->
           [Command |-> "", Args |-> <<>>, err |-> "unsupported request type"]

\* LaunchParser.handleNodeLaunchConfig
handleNodeLaunchConfig(projectRoot, vscodeConfig) ==
    handleProgramLaunchConfig(projectRoot, vscodeConfig, "node")

\* LaunchParser.handlePythonLaunchConfig
handlePythonLaunchConfig(projectRoot, vscodeConfig) ==
    handleProgramLaunchConfig(projectRoot, vscodeConfig, "python")

\* the switch of convertLaunchConfig on the launch type
HandleLaunchType(projectRoot, vscodeConfig) ==
    CASE vscodeConfig.type = "go" -> handleGoLaunchConfig(projectRoot, vscodeConfig)
      [] vscodeConfig.type = "node" -> handleNodeLaunchConfig(projectRoot, vscodeConfig)
      [] vscodeConfig.type = "python" -> handlePythonLaunchConfig(projectRoot, vscodeConfig)
      [] OTHER -> [Command |-> "", Args |-> <<>>, err |-> "unsupported launch type"]

\* the environment of a launch task: workspace variables resolved
LaunchEnv(projectRoot, env) ==
    [k \in DOMAIN env |->
        IF Contains(env[k], "${workspace") THEN resolveWorkspacePath(projectRoot, env[k])
        ELSE env[k]]

\* convertLaunchConfig once the type handler has run
LaunchTaskOf(projectRoot, vscodeConfig, sourceFile, handled) ==
    IF handled.err # NoError THEN [task |-> <<>>, err |-> handled.err]
    ELSE [task |-> Task(vscodeConfig.name, TypeVSCodeLaunch, handled.Command, handled.Args,
                        CwdOrRoot(projectRoot, vscodeConfig.cwd),
                        LaunchEnv(projectRoot, vscodeConfig.env),
                        IF vscodeConfig.request = "attach" THEN "debug" ELSE "launch",
                        vscodeConfig.type \o " " \o vscodeConfig.request \o " configuration",
                        sourceFile),
          err |-> NoError]

\* LaunchParser.convertLaunchConfig
convertLaunchConfig(projectRoot, vscodeConfig, sourceFile) ==
    LaunchTaskOf(projectRoot, vscodeConfig, sourceFile,
                 HandleLaunchType(projectRoot, vscodeConfig))

\* what a parse returns: the tasks, the error, and the warnings it printed
Parsed(tasks, err, warnings) == [tasks |-> tasks, err |-> err, warnings |-> warnings]

\* one round of the parsers' loop: the task is appended, or a warning printed
ParseStep(acc, name, r) ==
    IF r.err # NoError
    THEN Parsed(acc.tasks, acc.err, Append(acc.warnings, name))
    ELSE Parsed(Append(acc.tasks, r.task), acc.err, acc.warnings)

\* json.Unmarshal of the file's text into the file structure
Unmarshals(file) ==
    /\ file.syntax = "json"
    /\ \A i \in DOMAIN file.entries : DecodesAsStrings(file.entries[i].args)

\* parseJSONC: the comments are stripped first
UnmarshalsJSONC(file) ==
    /\ file.syntax \in {"json", "jsonc"}
    /\ \A i \in DOMAIN file.entries : DecodesAsStrings(file.entries[i].args)

\* TasksParser.ParseTasks
ParseTasks(projectRoot, file) ==
    IF ~file.readable THEN Parsed(<<>>, "failed to read tasks file", <<>>)
    ELSE IF ~UnmarshalsJSONC(file) THEN Parsed(<<>>, "failed to parse tasks JSON", <<>>)
    ELSE Range(LAMBDA i, e, acc :
                  ParseStep(acc, e.label, convertTask(projectRoot, e, file.path)),
               file.entries, Parsed(<<>>, NoError, <<>>))

\* LaunchParser.ParseLaunchConfigs
ParseLaunchConfigs(projectRoot, file) ==
    IF ~file.readable THEN Parsed(<<>>, "failed to read launch file", <<>>)
    ELSE IF ~Unmarshals(file) THEN Parsed(<<>>, "failed to parse launch JSON", <<>>)
    ELSE Range(LAMBDA i, e, acc :
                  ParseStep(acc, e.name, convertLaunchConfig(projectRoot, e, file.path)),
               file.entries, Parsed(<<>>, NoError, <<>>))

\* the first configuration of the name, or 0
ConfigIndex(configurations, configName) ==
    IF \E i \in DOMAIN configurations : configurations[i].name = configName
    THEN Min({i \in DOMAIN configurations : configurations[i].name = configName})
    ELSE 0

\* the loop of GetPreLaunchTask over the decoded configurations
PreLaunchTaskAt(configurations, i) ==
    IF i = 0 THEN [name |-> "", err |-> "launch configuration not found"]
    ELSE [name |-> configurations[i].preLaunchTask, err |-> NoError]

\* LaunchParser.GetPreLaunchTask
GetPreLaunchTask(file, configName) ==
    IF ~file.readable THEN [name |-> "", err |-> "failed to read launch file"]
    ELSE IF ~Unmarshals(file) THEN [name |-> "", err |-> "failed to parse launch JSON"]
    ELSE PreLaunchTaskAt(file.entries, ConfigIndex(file.entries, configName))

(***************************************************************************)
(* One parse of a tasks.json or launch.json file.                          *)
(***************************************************************************)
\* the most entries in a parsed file
MaxEntries == 2

EnvA == [k \in {"A"} |-> "${workspaceFolder}/a"]

TaskEntry(label, command, args, group, cwd, env) ==
    [label |-> label, type |-> "shell", command |-> command, args |-> args,
     group |-> group, cwd |-> cwd, env |-> env, detail |-> ""]

TaskEntries ==
    { TaskEntry("build", "go", JArray(<<JString("build")>>), JString("build"), "", NoEnv),
      TaskEntry("test", "npm", JAbsent, JObject("test"), "${workspaceFolder}/web", EnvA),
      TaskEntry("", "", JAbsent, JAbsent, "", NoEnv),
      TaskEntry("quoted", "echo", JArray(<<JObject("")>>), JAbsent, "", NoEnv) }

LaunchEntry(name, type, request, program, args, cwd, env, preLaunchTask) ==
    [name |-> name, type |-> type, request |-> request, program |-> program,
     args |-> args, cwd |-> cwd, env |-> env, preLaunchTask |-> preLaunchTask]

LaunchEntries ==
    { LaunchEntry("Go", "go", "launch", "", JAbsent, "", NoEnv, "build"),
      LaunchEntry("Node", "node", "launch", "${workspaceFolder}/app.js",
                  JArray(<<JString("--v")>>), "", EnvA, ""),
      LaunchEntry("NoProgram", "node", "launch", "", JAbsent, "", NoEnv, ""),
      LaunchEntry("Attach", "python", "attach", "", JAbsent, "", NoEnv, "build"),
      LaunchEntry("Py", "python", "launch", "main.py", JAbsent, "sub", NoEnv, ""),
      LaunchEntry("Java", "java", "launch", "", JAbsent, "", NoEnv, ""),
      LaunchEntry("Mistyped", "node", "launch", "app.js", JString("--v"), "", NoEnv, "") }

\* the file's text: strict JSON ("json"), the same JSON with // and /* */
\* comments outside its string literals ("jsonc"), or no JSON at all; and
\* whether the file can be read
FileStates ==
    { [readable |-> TRUE, syntax |-> "json"], [readable |-> TRUE, syntax |-> "jsonc"],
      [readable |-> TRUE, syntax |-> "invalid"], [readable |-> FALSE, syntax |-> "json"] }

ParserFile(kind, path, fs, entries) ==
    [fn |-> "file", kind |-> kind, path |-> path, readable |-> fs.readable,
     syntax |-> fs.syntax, entries |-> entries]

ParserFiles ==
    {ParserFile("tasks", "/p/.vscode/tasks.json", fs, es) :
        fs \in FileStates, es \in UNION {[1..n -> TaskEntries] : n \in 0..MaxEntries}}
    \cup
    {ParserFile("launch", "/p/.vscode/launch.json", fs, es) :
        fs \in FileStates, es \in UNION {[1..n -> LaunchEntries] : n \in 0..MaxEntries}}

InitParse ==
    /\ storage = EmptyStorage
    /\ call = NoCall
    /\ arg \in ParserFiles
    /\ ret = Idle

\* the caller's view of the parse
Returned(fn, r) == [fn |-> fn, tasks |-> r.tasks, err |-> r.err, warnings |-> r.warnings]

ParseTasksFile ==
    /\ ret = Idle
    /\ arg.kind = "tasks"
    /\ ret' = Returned("ParseTasks", ParseTasks(ProjectRoot, arg))
    /\ UNCHANGED <<storage, call, arg>>

ParseLaunchFile ==
    /\ ret = Idle
    /\ arg.kind = "launch"
    /\ ret' = Returned("ParseLaunchConfigs", ParseLaunchConfigs(ProjectRoot, arg))
    /\ UNCHANGED <<storage, call, arg>>

\* the configuration names a caller looks up
ConfigNames == {"Go", "Node", "Missing"}

LookupPreLaunchTask ==
    /\ ret = Idle
    /\ arg.kind = "launch"
    /\ \E configName \in ConfigNames :
          ret' = [fn |-> "GetPreLaunchTask", configName |-> configName,
                  name |-> GetPreLaunchTask(arg, configName).name,
                  err |-> GetPreLaunchTask(arg, configName).err]
    /\ UNCHANGED <<storage, call, arg>>

NextParse == ParseTasksFile \/ ParseLaunchFile \/ LookupPreLaunchTask

SpecParse == InitParse /\ [][NextParse]_vars

\* the entries the parsers are to skip: a launch entry of an unsupported
\* type or request kind, or a node or python entry without a program; a
\* tasks-list entry has no field the parser requires
Skippable(kind, e) ==
    /\ kind = "launch"
    /\ \/ e.type \notin {"go", "node", "python"}
       \/ e.request # "launch"
       \/ (e.type \in {"node", "python"} /\ e.program = "")

EntryName(kind, e) == IF kind = "launch" THEN e.name ELSE e.label

\* one warning per skippable entry and one task per other entry, in order
SkipsExactly(file, r) ==
    /\ r.warnings = Keep([i \in DOMAIN file.entries |-> EntryName(file.kind, file.entries[i])],
                         {i \in DOMAIN file.entries : Skippable(file.kind, file.entries[i])})
    /\ [i \in DOMAIN r.tasks |-> r.tasks[i].Name]
         = Keep([i \in DOMAIN file.entries |-> EntryName(file.kind, file.entries[i])],
                {i \in DOMAIN file.entries : ~Skippable(file.kind, file.entries[i])})

\* C3: parsing a readable, syntactically valid tasks.json or launch.json
\* never fails as a whole; each entry lacking a required field or of an
\* unsupported type or request kind is left out with exactly one warning,
\* and every other entry yields exactly one task.
C3_ParseNeverFailsAsWhole ==
    (ret.fn \in {"ParseTasks", "ParseLaunchConfigs"} /\ arg.readable /\ arg.syntax = "json")
    => (ret.err = NoError /\ SkipsExactly(arg, ret))

\* the same file with its comments removed
WithoutComments(file) ==
    [file EXCEPT !.syntax = IF @ = "jsonc" THEN "json" ELSE @]

\* what each parser function returns for a file
ReturnedFor(fn, configName, file) ==
    CASE fn = "ParseTasks" -> Returned(fn, ParseTasks(ProjectRoot, file))
      [] fn = "ParseLaunchConfigs" -> Returned(fn, ParseLaunchConfigs(ProjectRoot, file))
      [] fn = "GetPreLaunchTask" ->
           [fn |-> fn, configName |-> configName,
            name |-> GetPreLaunchTask(file, configName).name,
            err |-> GetPreLaunchTask(file, configName).err]

\* C12: the tasks parser, the launch parser and the preLaunchTask lookup
\* accept a file with // and /* */ comments outside string literals and
\* return exactly what they return for the same file without the comments.
C12_CommentsTolerated ==
    (ret # Idle /\ arg.readable /\ arg.syntax = "jsonc")
    => ret = ReturnedFor(ret.fn, IF ret.fn = "GetPreLaunchTask" THEN ret.configName ELSE "",
                         WithoutComments(arg))

\* the strings a run configuration holds besides its name and type: the
\* values of its options and of its environment entries
ConfigValues(config) ==
    {config.Options[i].Value : i \in DOMAIN config.Options}
    \cup {config.EnvVars[i].Value : i \in DOMAIN config.EnvVars}

\* the parsed task of a launch entry converts, and no value of the emitted
\* run configuration names the entry's preLaunchTask
DependencyLost(entry, task) ==
    /\ entry.preLaunchTask # ""
    /\ task.Name = entry.name
    /\ convertSingleLaunchConfig(task).err = NoError
    /\ entry.preLaunchTask \notin ConfigValues(convertSingleLaunchConfig(task).config)

\* C17: when a launch configuration that names a preLaunchTask is parsed and
\* converted to a run configuration, the emitted configuration still records
\* the named task.
C17_PreLaunchTaskSurvives ==
    (ret.fn = "ParseLaunchConfigs" /\ ret.err = NoError)
    => \A i \in DOMAIN arg.entries : \A k \in DOMAIN ret.tasks :
          ~DependencyLost(arg.entries[i], ret.tasks[k])

\* C23: every task a parser returns has a non-empty name, whatever the
\* source entry holds.
C23_ParsedTasksAreNamed ==
    ret.fn \in {"ParseTasks", "ParseLaunchConfigs"}
    => \A k \in DOMAIN ret.tasks : ret.tasks[k].Name # ""

(***************************************************************************)
(* stripJSONComments: the comment stripper of the JSONC parser.            *)
(* Positions are 1-based: position i here is index i-1 of the Go string.   *)
(***************************************************************************)
\* what the scan has written: the output and the input positions it copied
Written(out, kept) == [out |-> out, kept |-> kept]

\* result.WriteByte(char) for the character at position i
WriteByte(w, s, i) == Written(w.out \o CharAt(s, i), Append(w.kept, i))

\* the character at position i is c and position i+1 holds d
Pair(s, i, c, d) == CharAt(s, i) = c /\ i + 1 <= Len(s) /\ CharAt(s, i + 1) = d

\* the inner loop of a line comment: the first position from i on that holds
\* a line terminator, or the end of the input
RECURSIVE LineEnd(_, _)
LineEnd(s, i) ==
    IF i <= Len(s) /\ CharAt(s, i) \notin {"\n", "\r"} THEN LineEnd(s, i + 1) ELSE i

\* the inner loop of a block comment started at i: the position after the
\* closing */, or the position at which the loop gives up
RECURSIVE BlockEnd(_, _)
BlockEnd(s, i) ==
    IF i + 1 <= Len(s)
    THEN (IF CharAt(s, i) = "*" /\ CharAt(s, i + 1) = "/" THEN i + 2
          ELSE BlockEnd(s, i + 1))
    ELSE i

\* a faulty variant that never enters a string
StayOutsideString(inString) == FALSE

\* inString = !inString
ToggleInString(inString) == ~inString

\* the loop of stripJSONComments from position i on
RECURSIVE Scan(_, _, _, _, _)
Scan(s, i, inString, escaped, w) ==
    IF i > Len(s) THEN w
    ELSE IF inString /\ escaped THEN Scan(s, i + 1, inString, FALSE, WriteByte(w, s, i))
    ELSE IF CharAt(s, i) = "\"" /\ ~escaped
    THEN Scan(s, i + 1, ToggleInString(inString), escaped, WriteByte(w, s, i))
    ELSE IF inString /\ CharAt(s, i) = "\\"
    THEN Scan(s, i + 1, inString, TRUE, WriteByte(w, s, i))
    ELSE IF inString THEN Scan(s, i + 1, inString, escaped, WriteByte(w, s, i))
    ELSE IF Pair(s, i, "/", "/") THEN Scan(s, LineEnd(s, i), inString, escaped, w)
    ELSE IF Pair(s, i, "/", "*") THEN Scan(s, BlockEnd(s, i + 2), inString, escaped, w)
    ELSE Scan(s, i + 1, inString, escaped, WriteByte(w, s, i))

\* stripJSONComments, with the positions it kept
stripJSONComments(jsonStr) == Scan(jsonStr, 1, FALSE, FALSE, Written("", <<>>))

(***************************************************************************)
(* One call of stripJSONComments on a short text.                          *)
(***************************************************************************)
\* the longest text stripped
MaxLen == 5

\* a quote, a backslash, the comment characters, a line end, another character
Alphabet == {"\"", "\\", "/", "*", "\n", "a"}

RECURSIVE Concat(_)
Concat(chars) == IF chars = <<>> THEN "" ELSE Head(chars) \o Concat(Tail(chars))

Texts == {Concat(f) : f \in UNION {[1..n -> Alphabet] : n \in 0..MaxLen}}

InitStrip ==
    /\ storage = EmptyStorage
    /\ call = NoCall
    /\ arg \in {[fn |-> "text", text |-> t] : t \in Texts}
    /\ ret = Idle

\* the stripped text as the caller receives it, with the kept positions
Stripped(w) == [fn |-> "stripJSONComments", out |-> w.out, kept |-> w.kept]

StripComments ==
    /\ ret = Idle
    /\ ret' = Stripped(stripJSONComments(arg.text))
    /\ UNCHANGED <<storage, call, arg>>

NextStrip == StripComments

SpecStrip == InitStrip /\ [][NextStrip]_vars

\* The JSONC grammar, independently of the stripper: the string literals of a
\* text as pairs <<opening quote, closing quote>>.  mode is "plain", "string",
\* "escape", "line" or "block"; start is the opening quote of the literal
\* being read.
RECURSIVE Literals(_, _, _, _)
Literals(s, i, mode, start) ==
    IF i > Len(s) THEN {}
    ELSE CASE mode = "plain" ->
                IF CharAt(s, i) = "\"" THEN Literals(s, i + 1, "string", i)
                ELSE IF Pair(s, i, "/", "/") THEN Literals(s, i + 2, "line", 0)
                ELSE IF Pair(s, i, "/", "*") THEN Literals(s, i + 2, "block", 0)
                ELSE Literals(s, i + 1, "plain", 0)
           [] mode = "string" ->
                IF CharAt(s, i) = "\\" THEN Literals(s, i + 1, "escape", start)
                ELSE IF CharAt(s, i) = "\""
                THEN {<<start, i>>} \cup Literals(s, i + 1, "plain", 0)
                ELSE Literals(s, i + 1, "string", start)
           [] mode = "escape" -> Literals(s, i + 1, "string", start)
           [] mode = "line" ->
                IF CharAt(s, i) \in {"\n", "\r"} THEN Literals(s, i + 1, "plain", 0)
                ELSE Literals(s, i + 1, "line", 0)
           [] mode = "block" ->
                IF Pair(s, i, "*", "/") THEN Literals(s, i + 2, "plain", 0)
                ELSE Literals(s, i + 1, "block", 0)

StringLiterals(s) == Literals(s, 1, "plain", 0)

\* the positions a..b of the text were copied, adjacent and in order, and
\* the output holds the same characters there
CopiedIntact(text, r, a, b) ==
    \E k \in DOMAIN r.kept :
        /\ k + (b - a) <= Len(r.kept)
        /\ \A j \in 0..(b - a) : r.kept[k + j] = a + j
        /\ SubSeq(r.out, k, k + (b - a)) = SubSeq(text, a, b)

\* C10: comment stripping emits every string literal of its input, from the
\* opening quote to the closing quote, unchanged and in order, whatever the
\* literal holds (// or /* */ sequences, escaped quotes or backslashes).
C10_StringLiteralsIntact ==
    ret # Idle =>
        \A span \in StringLiterals(arg.text) : CopiedIntact(arg.text, ret, span[1], span[2])

\* a stripped text with a closed literal that holds a comment opener or an
\* escaped character, in a text from which a comment was removed or not
C10_LiteralWitness ==
    /\ ret # Idle
    /\ \E span \in StringLiterals(arg.text) :
          \/ Contains(SubSeq(arg.text, span[1], span[2]), "//")
          \/ Contains(SubSeq(arg.text, span[1], span[2]), "/*")
          \/ Contains(SubSeq(arg.text, span[1], span[2]), "\\\"")

(***************************************************************************)
(* The JetBrains run-configuration parser, and the way back from a run     *)
(* configuration to a Canonical Task.                                      *)
(***************************************************************************)
\* a nil pointer
Nil == [kind |-> "nil"]

\* the greatest index of a set of indexes
LastOf(S) == CHOOSE x \in S : \A y \in S : y <= x

\* a loop over the options that assigns the value at every option of the
\* name: the last one is kept, the default when there is none
LastOption(options, name, default) ==
    IF \E i \in DOMAIN options : options[i].Name = name
    THEN options[LastOf({i \in DOMAIN options : options[i].Name = name})].Value
    ELSE default

\* the argument under construction joins the arguments when it is not empty
Flush(args, current) == IF current = "" THEN args ELSE Append(args, current)

\* RunConfigurationParser.parseParameters, character by character
RECURSIVE ParametersFrom(_, _, _, _, _)
ParametersFrom(params, args, current, inQuote, quoteChar) ==
    IF params = "" THEN Flush(args, current)
    ELSE IF ~inQuote /\ Head(params) \in {"\"", "'"}
         THEN ParametersFrom(Tail(params), args, current, TRUE, Head(params))
    ELSE IF inQuote /\ Head(params) = quoteChar
         THEN ParametersFrom(Tail(params), args, current, FALSE, quoteChar)
    ELSE IF ~inQuote /\ Head(params) = " "
         THEN ParametersFrom(Tail(params), Flush(args, current), "", inQuote, quoteChar)
    ELSE ParametersFrom(Tail(params), args, current \o Head(params), inQuote, quoteChar)

\* RunConfigurationParser.parseParameters
parseParameters(params) == ParametersFrom(params, <<>>, "", FALSE, "")

\* RunConfigurationParser.resolveJetBrainsPath
resolveJetBrainsPath(projectRoot, path) ==
    Absolute(projectRoot,
             ReplaceAll(ReplaceAll(path, "$PROJECT_DIR$", projectRoot),
                        "$MODULE_DIR$", projectRoot))

\* what a type handler leaves in the task, and its error
Handled(command, group, args, cwd, err) ==
    [Command |-> command, Group |-> group, Args |-> args, Cwd |-> cwd, err |-> err]

\* the arguments of an Application: VM parameters, main class, program parameters
ApplicationArgs(vmParameters, mainClass, programParameters) ==
    parseParameters(vmParameters) \o <<mainClass>> \o parseParameters(programParameters)

\* handleApplicationConfig once the options are read
ApplicationOf(projectRoot, mainClass, vmParameters, programParameters, workingDirectory) ==
    IF mainClass = ""
    THEN Handled("java", "run", <<>>, "",
                 "MAIN_CLASS_NAME is required for Application configuration")
    ELSE Handled("java", "run",
                 ApplicationArgs(vmParameters, mainClass, programParameters),
                 IF workingDirectory # ""
                 THEN resolveJetBrainsPath(projectRoot, workingDirectory) ELSE "",
                 NoError)

\* RunConfigurationParser.handleApplicationConfig (no option written by the
\* converters holds a map, so the environment stays empty)
handleApplicationConfig(projectRoot, jetbrainsConfig) ==
    ApplicationOf(projectRoot,
                  LastOption(jetbrainsConfig.Options, "MAIN_CLASS_NAME", ""),
                  LastOption(jetbrainsConfig.Options, "VM_PARAMETERS", ""),
                  LastOption(jetbrainsConfig.Options, "PROGRAM_PARAMETERS", ""),
                  LastOption(jetbrainsConfig.Options, "WORKING_DIRECTORY", ""))

\* RunConfigurationParser.handleGradleConfig
handleGradleConfig(jetbrainsConfig) ==
    IF jetbrainsConfig.ExternalSystemSettings = Nil
    THEN Handled("gradle", "build", <<>>, "",
                 "ExternalSystemSettings is required for Gradle configuration")
    ELSE Handled("gradle", "build",
                 jetbrainsConfig.ExternalSystemSettings.taskNames
                 \o parseParameters(jetbrainsConfig.ExternalSystemSettings.scriptParameters),
                 "", NoError)

\* the switch of convertRunConfiguration on the configuration type
HandleConfigType(projectRoot, jetbrainsConfig) ==
    CASE jetbrainsConfig.Type = "Application" ->
           handleApplicationConfig(projectRoot, jetbrainsConfig)
      [] jetbrainsConfig.Type = "GradleRunConfiguration" ->
           handleGradleConfig(jetbrainsConfig)
      [] OTHER -> Handled("", "", <<>>, "", "unsupported JetBrains configuration type")

\* convertRunConfiguration once the type handler has run
RunTaskOf(projectRoot, jetbrainsConfig, sourceFile, handled) ==
    IF handled.err # NoError THEN [task |-> <<>>, err |-> handled.err]
    ELSE [task |-> Task(jetbrainsConfig.Name, TypeJetBrains, handled.Command,
                        handled.Args,
                        IF handled.Cwd = "" THEN projectRoot ELSE handled.Cwd,
                        NoEnv, handled.Group,
                        "JetBrains " \o jetbrainsConfig.Type \o " configuration",
                        sourceFile),
          err |-> NoError]

\* RunConfigurationParser.convertRunConfiguration
convertRunConfiguration(projectRoot, jetbrainsConfig, sourceFile) ==
    RunTaskOf(projectRoot, jetbrainsConfig, sourceFile,
              HandleConfigType(projectRoot, jetbrainsConfig))

\* xml.Unmarshal of the file a converter wrote into the parser's structure:
\* name, type and options are read, <envs> is not a field of the parser's
\* structure, and a converter writes no ExternalSystemSettings element
UnmarshalRunConfiguration(config) ==
    [Name |-> config.Name, Type |-> config.Type, Options |-> config.Options,
     ExternalSystemSettings |-> Nil]

\* parseSpaceSeparatedArgs of the converter's tests
parseSpaceSeparatedArgs(input) == IF input = "" THEN <<>> ELSE Fields(input)

\* the configuration types jetbrainsConfigToTask has a case for
HelperTypes ==
    {"GoApplicationRunConfiguration", "Application", "NodeJSConfigurationType",
     "PythonConfigurationType"}

\* the command jetbrainsConfigToTask gives each configuration type
HelperCommand(type) ==
    CASE type = "GoApplicationRunConfiguration" -> "go"
      [] type = "Application" -> "java"
      [] type = "NodeJSConfigurationType" -> "node"
      [] type = "PythonConfigurationType" -> "python"
      [] OTHER -> ""

\* the program followed by its parameters, nothing without a program
ProgramThenParams(program, params) ==
    IF program # "" THEN <<program>> \o params ELSE <<>>

\* the Python case: a module run keeps the parameters alone
PythonHelperArgs(scriptName, params) ==
    IF scriptName = "python" /\ Len(params) >= 2 /\ params[1] = "-m" THEN params
    ELSE ProgramThenParams(scriptName, params)

\* the arguments jetbrainsConfigToTask builds from the options
HelperArgs(type, options) ==
    CASE type = "GoApplicationRunConfiguration" ->
           <<"run", LastOption(options, "PACKAGE", ".")>>
           \o parseSpaceSeparatedArgs(LastOption(options, "PROGRAM_PARAMETERS", ""))
      [] type = "Application" ->
           ProgramThenParams(LastOption(options, "MAIN_CLASS_NAME", ""),
               parseSpaceSeparatedArgs(LastOption(options, "PROGRAM_PARAMETERS", "")))
      [] type = "NodeJSConfigurationType" ->
           ProgramThenParams(LastOption(options, "PATH_TO_JS_FILE", ""),
               parseSpaceSeparatedArgs(LastOption(options, "APPLICATION_PARAMETERS", "")))
      [] type = "PythonConfigurationType" ->
           PythonHelperArgs(LastOption(options, "SCRIPT_NAME", ""),
               parseSpaceSeparatedArgs(LastOption(options, "PARAMETERS", "")))
      [] OTHER -> <<>>

\* the environment map filled from the <env> elements in order
EnvOfVars(envVars) ==
    [k \in {envVars[i].Name : i \in DOMAIN envVars} |-> LastOption(envVars, k, "")]

\* jetbrainsConfigToTask of the converter's tests
jetbrainsConfigToTask(jbConfig) ==
    Task(jbConfig.Name, TypeJetBrains, HelperCommand(jbConfig.Type),
         HelperArgs(jbConfig.Type, jbConfig.Options),
         IF jbConfig.Type \in HelperTypes
         THEN LastOption(jbConfig.Options, "WORKING_DIRECTORY", "") ELSE "",
         EnvOfVars(jbConfig.EnvVars), "", jbConfig.Type, "")

\* the string items of a JSON args array (items of another type are dropped)
StringItems(v) ==
    IF v.kind # "array" THEN <<>>
    ELSE LET kept == SelectSeq(v.items, LAMBDA item : item.kind = "string")
         IN [i \in DOMAIN kept |-> kept[i].s]

\* the arguments parseVSCodeLaunchDataToTasks builds for one configuration
LaunchDataArgs(configMap, args) ==
    CASE configMap.type = "go" ->
           <<"run", IF configMap.program # "" THEN configMap.program ELSE ".">> \o args
      [] configMap.type = "java" ->
           IF configMap.mainClass # "" THEN <<configMap.mainClass>> \o args ELSE args
      [] configMap.type = "node" ->
           IF configMap.program # "" THEN <<configMap.program>> \o args ELSE args
      [] configMap.type = "python" ->
           IF configMap.program # "" THEN <<configMap.program>> \o args
           ELSE IF configMap.module # "" THEN <<"-m", configMap.module>> \o args
           ELSE args
      [] OTHER -> args

\* the loop body of parseVSCodeLaunchDataToTasks: one configuration to a task
parseVSCodeLaunchDataToTasks(configMap) ==
    Task(configMap.name, TypeVSCodeLaunch, configMap.type,
         LaunchDataArgs(configMap, StringItems(configMap.args)),
         configMap.cwd, configMap.env, "",
         configMap.type \o " " \o configMap.request \o " config", "")

\* containsString of the converter's tests
containsString(s, substr) == Contains(ToLower(s), ToLower(substr))

(***************************************************************************)
(* One round trip of a launch.json configuration: parsed, converted to a   *)
(* run configuration, read back as a task, converted to a launch entry.    *)
(***************************************************************************)
\* the most arguments of a native launch configuration
MaxArgs == 1

NativeEntry(name, type, request, program, mainClass, module, args) ==
    [name |-> name, type |-> type, request |-> request, program |-> program,
     mainClass |-> mainClass, module |-> module, args |-> args, cwd |-> "",
     env |-> NoEnv]

NativeNames == {"Run", "Launch Application"}

NativeRequests == {"launch", "attach"}

NativeArgs ==
    {JAbsent} \cup {JArray([i \in 1..n |-> JString("--v")]) : n \in 1..MaxArgs}

\* launch.json configurations as the debuggers of the four languages take them
NativeEntries ==
    {NativeEntry(n, "go", r, p, "", "", a) :
        n \in NativeNames, r \in NativeRequests,
        p \in {"", "${workspaceFolder}/cmd/app"}, a \in NativeArgs}
    \cup
    {NativeEntry(n, "node", r, p, "", "", a) :
        n \in NativeNames, r \in NativeRequests,
        p \in {"", "${workspaceFolder}/app.js"}, a \in NativeArgs}
    \cup
    {NativeEntry(n, "python", r, "${workspaceFolder}/main.py", "", "", a) :
        n \in NativeNames, r \in NativeRequests, a \in NativeArgs}
    \cup
    {NativeEntry(n, "python", r, "", "", m, a) :
        n \in NativeNames, r \in NativeRequests, m \in {"", "pkg.mod"},
        a \in NativeArgs}
    \cup
    {NativeEntry(n, "java", r, "", m, "", a) :
        n \in NativeNames, r \in NativeRequests, m \in {"", "com.example.Main"},
        a \in NativeArgs}

\* the two ways a launch.json configuration becomes a task: the launch
\* parser, and the loader of the converter's tests
NativeParsers == {"LaunchParser", "parseVSCodeLaunchDataToTasks"}

InitRoundTrip ==
    /\ storage = EmptyStorage
    /\ call = NoCall
    /\ arg \in {[fn |-> "roundtrip", entry |-> e, parser |-> p] :
                   e \in NativeEntries, p \in NativeParsers}
    /\ ret = Idle

\* where a round trip ended, the error there, and the final launch type
Outcome(stage, err, type) == [stage |-> stage, err |-> err, type |-> type]

\* the last step ended: the launch entry, or the error of the conversion
LaunchOutcome(l) ==
    IF l.err # NoError THEN Outcome("convertSingleTaskToLaunch", l.err, "")
    ELSE Outcome("done", NoError, l.launchConfig.Type)

\* the way back: ConvertToLaunch keeps the tasks canConvertToLaunch accepts
BackToLaunch(t) ==
    IF t.err # NoError THEN Outcome("run configuration to task", t.err, "")
    ELSE IF ~canConvertToLaunch(t.task) THEN Outcome("canConvertToLaunch", NoError, "")
    ELSE LaunchOutcome(convertSingleTaskToLaunch(t.task))

\* the written file read back by the run-configuration parser
ThroughParser(c) ==
    IF c.err # NoError THEN Outcome("convertSingleLaunchConfig", c.err, "")
    ELSE BackToLaunch(convertRunConfiguration(ProjectRoot,
                                              UnmarshalRunConfiguration(c.config),
                                              "/p/.idea/runConfigurations/x.xml"))

\* the configuration turned into a task as the converter's tests do
ThroughTestHelper(c) ==
    IF c.err # NoError THEN Outcome("convertSingleLaunchConfig", c.err, "")
    ELSE BackToLaunch([task |-> jetbrainsConfigToTask(c.config), err |-> NoError])

\* the native configuration as a task; the tests leave the attach ones out
NativeTask(entry, parser) ==
    IF parser = "LaunchParser"
    THEN convertLaunchConfig(ProjectRoot, entry, "/p/.vscode/launch.json")
    ELSE [task |-> parseVSCodeLaunchDataToTasks(entry),
          err |-> IF containsString(entry.type \o " " \o entry.request \o " config",
                                    "attach")
                  THEN "attach configuration left out" ELSE NoError]

\* the way there: convertSingleLaunchConfig of the parsed task
ToRunConfiguration(p) ==
    IF p.err # NoError THEN [config |-> <<>>, err |-> p.err, parsed |-> FALSE]
    ELSE [config |-> convertSingleLaunchConfig(p.task).config,
          err |-> convertSingleLaunchConfig(p.task).err, parsed |-> TRUE]

\* the caller's view of the round trip
RoundTripped(back, parsed, o) ==
    [fn |-> "roundtrip", back |-> back, parsed |-> parsed,
     stage |-> IF parsed THEN o.stage ELSE "parse", err |-> o.err, type |-> o.type]

RoundTripThroughParser ==
    /\ ret = Idle
    /\ arg.fn = "roundtrip"
    /\ ret' = RoundTripped("RunConfigurationParser",
                           NativeTask(arg.entry, arg.parser).err = NoError,
                           ThroughParser(ToRunConfiguration(
                               NativeTask(arg.entry, arg.parser))))
    /\ UNCHANGED <<storage, call, arg>>

RoundTripThroughTestHelper ==
    /\ ret = Idle
    /\ arg.fn = "roundtrip"
    /\ ret' = RoundTripped("jetbrainsConfigToTask",
                           NativeTask(arg.entry, arg.parser).err = NoError,
                           ThroughTestHelper(ToRunConfiguration(
                               NativeTask(arg.entry, arg.parser))))
    /\ UNCHANGED <<storage, call, arg>>

NextRoundTrip == RoundTripThroughParser \/ RoundTripThroughTestHelper

SpecRoundTrip == InitRoundTrip /\ [][NextRoundTrip]_vars

\* C6: a native configuration of a supported category that is parsed,
\* converted to the other ecosystem and converted back is classified in the
\* same category at the end of the round trip.
C6_RoundTripKeepsCategory ==
    (ret # Idle /\ ret.stage = "done")
    => Category(Flavor(ret.type)) = Category(Flavor(arg.entry.type))

\* The JSONC grammar again, independently of the stripper: the positions of
\* the text that belong to a comment started outside a string literal.  A //
\* comment ends before its line terminator, a block comment with its closing
\* */, and a block comment never closed runs to the end of the text.
RECURSIVE CommentPositionsFrom(_, _, _)
CommentPositionsFrom(s, i, mode) ==
    IF i > Len(s) THEN {}
    ELSE CASE mode = "plain" ->
                IF CharAt(s, i) = "\"" THEN CommentPositionsFrom(s, i + 1, "string")
                ELSE IF Pair(s, i, "/", "/")
                THEN {i, i + 1} \cup CommentPositionsFrom(s, i + 2, "line")
                ELSE IF Pair(s, i, "/", "*")
                THEN {i, i + 1} \cup CommentPositionsFrom(s, i + 2, "block")
                ELSE CommentPositionsFrom(s, i + 1, "plain")
           [] mode = "string" ->
                IF CharAt(s, i) = "\\" THEN CommentPositionsFrom(s, i + 1, "escape")
                ELSE IF CharAt(s, i) = "\"" THEN CommentPositionsFrom(s, i + 1, "plain")
                ELSE CommentPositionsFrom(s, i + 1, "string")
           [] mode = "escape" -> CommentPositionsFrom(s, i + 1, "string")
           [] mode = "line" ->
                IF CharAt(s, i) \in {"\n", "\r"} THEN CommentPositionsFrom(s, i, "plain")
                ELSE {i} \cup CommentPositionsFrom(s, i + 1, "line")
           [] mode = "block" ->
                IF Pair(s, i, "*", "/")
                THEN {i, i + 1} \cup CommentPositionsFrom(s, i + 2, "plain")
                ELSE {i} \cup CommentPositionsFrom(s, i + 1, "block")

CommentPositions(s) == CommentPositionsFrom(s, 1, "plain")

\* the positions outside the comments, in their order in the text
RemainingPositions(s) ==
    SelectSeq([i \in 1..Len(s) |-> i], LAMBDA i : i \notin CommentPositions(s))

\* C11: comment stripping removes every // comment up to its line terminator
\* and every block comment through its closing */, when the comment starts
\* outside a string literal, and emits every other character of the input
\* unchanged and in the original order.
C11_CommentsRemoved ==
    ret # Idle =>
        /\ ret.kept = RemainingPositions(arg.text)
        /\ Len(ret.out) = Len(ret.kept)
        /\ \A k \in DOMAIN ret.kept : CharAt(ret.out, k) = CharAt(arg.text, ret.kept[k])

(***************************************************************************)
(* A run compared with the dry run of the same inputs.                     *)
(***************************************************************************)
\* the lines of standard output that are diagnostics about the tasks
DiagnosticKinds ==
    {"skipping", "warning: failed to convert", "warning: failed to write",
     "nothing to convert", "note"}

Diagnostics(out) == SelectSeq(out, LAMBDA line : line.kind \in DiagnosticKinds)

\* the dry run of the finished invocation: same converter, tasks, options
\* and storage
DryRunOfCall ==
    Invoke(call.conv, call.tasks, TRUE, call.verbose, call.outputPath, call.order,
           call.before)

\* the counts and diagnostics an invocation reports
Report(tasks, r) ==
    [converted |-> r.converted, skipped |-> Len(tasks) - r.converted,
     diagnostics |-> Diagnostics(r.out), err |-> r.err]

\* C13: for the same converter, tasks, options and state of the output
\* location, a dry run reports the same converted count, skipped count and
\* per-task diagnostics as the real run.
C13_DryRunReportsTheSame ==
    (call # NoCall /\ ~call.dryRun)
    => Report(call.tasks, DryRunOfCall) = Report(call.tasks, call)

(***************************************************************************)
(* When a run fails as a whole.                                            *)
(***************************************************************************)
\* the directory a real run creates for its output
OutputLocation(conv, outputPath) ==
    IF conv \in FilePerTaskConverters
    THEN OutputDir(Converter(ProjectRoot, outputPath, FALSE))
    ELSE Dir(SingleFilePath(conv, outputPath))

\* the files a real run writes when nothing is refused
OutputFiles(conv, tasks, outputPath, order) ==
    IF conv \in FilePerTaskConverters
    THEN {JoinPath(OutputLocation(conv, outputPath),
                   (IF conv = "VSCodeToJetBrains"
                    THEN sanitizeFilename(tasks[i].Name)
                    ELSE Launch_sanitizeFilename(tasks[i].Name)) \o ".xml") :
            i \in AcceptedAt(conv, tasks) \ FailingAt(conv, tasks, order)}
    ELSE IF AcceptedAt(conv, tasks) # {} THEN {SingleFilePath(conv, outputPath)}
    ELSE {}

\* the run reaches the creation of its output location, and it is refused
CannotCreate(conv, tasks, outputPath, sto) ==
    /\ conv = "VSCodeToJetBrains" \/ AcceptedAt(conv, tasks) # {}
    /\ ~MkdirAll(sto, OutputLocation(conv, outputPath)).ok

\* the output location is there, and the write of an output file is refused
CannotWrite(conv, tasks, outputPath, order, sto) ==
    /\ MkdirAll(sto, OutputLocation(conv, outputPath)).ok
    /\ \E p \in OutputFiles(conv, tasks, outputPath, order) :
          ~WriteFile(MkdirAll(sto, OutputLocation(conv, outputPath)).storage, p, <<>>).ok

\* C14: a real run returns an error exactly when its output location cannot
\* be created or one of its output files cannot be written.
C14_FailsExactlyOnOutputErrors ==
    (call # NoCall /\ ~call.dryRun)
    => (call.err # NoError
        <=> \/ CannotCreate(call.conv, call.tasks, call.outputPath, call.before)
            \/ CannotWrite(call.conv, call.tasks, call.outputPath, call.order,
                           call.before))

(***************************************************************************)
(* Tasks of a kind the converter does not take.                            *)
(***************************************************************************)
\* the kind of task each converter is for
KindAccepted(conv, t) ==
    CASE conv = "VSCodeToJetBrains" -> HasPrefix(t.Type, "vscode-task")
      [] conv = "VSCodeLaunchToJetBrains" -> t.Type = TypeVSCodeLaunch
      [] conv \in SingleFileConverters -> t.Type = TypeJetBrains

\* the positions of the input whose task is of another kind
RejectedAt(conv, tasks) == {i \in DOMAIN tasks : ~KindAccepted(conv, tasks[i])}

\* the invocation without the tasks of another kind
WithoutRejected ==
    Invoke(call.conv, Keep(call.tasks, DOMAIN call.tasks \ RejectedAt(call.conv, call.tasks)),
           call.dryRun, call.verbose, call.outputPath,
           Keep(call.order, DOMAIN call.tasks \ RejectedAt(call.conv, call.tasks)),
           call.before)

\* the run left out the tasks of another kind: storage, converted count and
\* returned error are those of the run without them
RejectedLeftOut ==
    /\ storage = WithoutRejected.storage
    /\ call.converted = WithoutRejected.converted
    /\ call.err = WithoutRejected.err

\* C15: every task of a kind the converter does not accept is skipped: it
\* yields no output and no error, and a skip diagnostic naming it is emitted,
\* whatever the converter and its options.
C15_OtherKindsSkippedWithDiagnostic ==
    (call # NoCall /\ RejectedAt(call.conv, call.tasks) # {})
    => /\ RejectedLeftOut
       /\ LoopRan =>
            \A i \in RejectedAt(call.conv, call.tasks) :
               \E k \in DOMAIN call.out :
                  call.out[k] = Line("skipping", call.tasks[i].Name)

SecondRun(order) ==
    Invoke(call.conv, call.tasks, call.dryRun, call.verbose, call.outputPath, order,
           call.before)

\* C19: converting the same task list twice with the same converter and
\* options produces the same serialized output each time, the order of a
\* task's environment entries included.
C19_SameOutputEachTime ==
    call # NoCall =>
       \A order \in OrdersFor(call.tasks) :
          /\ SecondRun(order).storage = storage
          /\ SecondRun(order).out = call.out

(***************************************************************************)
(* One Java task handed to the converter of its kind.                      *)
(***************************************************************************)
JavaCommands == {"java", "/usr/bin/java"}

\* argument lists with and without a class name
JavaArgs ==
    {<<>>, <<"-version">>, <<"-cp", "lib">>, <<"-jar", "app.jar">>, <<"com.Main">>}

JavaTasks ==
    {Task(n, ty, cmd, a, "", NoEnv, "", "", "") :
        n \in {"Server", "run app"},
        ty \in {TypeVSCodeTask, TypeVSCodeLaunch, TypeJetBrains},
        cmd \in JavaCommands, a \in JavaArgs}

InitJava ==
    /\ storage = FreshProject
    /\ call = NoCall
    /\ arg \in {[fn |-> "task", task |-> t] : t \in JavaTasks}
    /\ ret = Idle

\* taskporter port --from vscode-tasks --to jetbrains, of the one task
ConvertJavaTask ==
    /\ call = NoCall
    /\ arg.task.Type = TypeVSCodeTask
    /\ \E dryRun \in BOOLEAN, verbose \in BOOLEAN, outputPath \in OutputPaths :
           Commit("VSCodeToJetBrains", <<arg.task>>, dryRun, verbose, outputPath,
                  <<<<>>>>,
                  VSCodeToJetBrains_ConvertTasks(Converter(ProjectRoot, outputPath, verbose),
                                                 <<arg.task>>, dryRun, <<<<>>>>, storage))
    /\ UNCHANGED <<arg, ret>>

\* taskporter port --from vscode-launch --to jetbrains, of the one task
ConvertJavaLaunch ==
    /\ call = NoCall
    /\ arg.task.Type = TypeVSCodeLaunch
    /\ \E dryRun \in BOOLEAN, verbose \in BOOLEAN, outputPath \in OutputPaths :
           Commit("VSCodeLaunchToJetBrains", <<arg.task>>, dryRun, verbose, outputPath,
                  <<<<>>>>,
                  ConvertLaunchConfigs(Converter(ProjectRoot, outputPath, verbose),
                                       <<arg.task>>, dryRun, storage))
    /\ UNCHANGED <<arg, ret>>

\* taskporter port --from jetbrains --to vscode-launch, of the one task
ConvertJavaRunConfiguration ==
    /\ call = NoCall
    /\ arg.task.Type = TypeJetBrains
    /\ \E dryRun \in BOOLEAN, verbose \in BOOLEAN, outputPath \in OutputPaths :
           Commit("JetBrainsToVSCodeLaunch", <<arg.task>>, dryRun, verbose, outputPath,
                  <<<<>>>>,
                  ConvertToLaunch(Converter(ProjectRoot, outputPath, verbose),
                                  <<arg.task>>, dryRun, storage))
    /\ UNCHANGED <<arg, ret>>

NextJava == ConvertJavaTask \/ ConvertJavaLaunch \/ ConvertJavaRunConfiguration

SpecJava == InitJava /\ [][NextJava]_vars

\* no word of the command and no argument names a class: none holds a dot
\* without starting with a dash
NoEntryPoint(task) ==
    /\ \A i \in DOMAIN task.Args : ~IsClassLike(task.Args[i])
    /\ \A i \in DOMAIN Fields(task.Command) : ~IsClassLike(Fields(task.Command)[i])

\* C16: a Java task from which no entry-point class can be extracted is
\* skipped: it is not counted as converted, no file is written or previewed
\* for it, and a skip diagnostic naming it is printed.
C16_NoEntryPointSkipped ==
    (call # NoCall /\ NoEntryPoint(arg.task))
    => /\ call.converted = 0
       /\ storage.files = call.before.files
       /\ \A i \in DOMAIN call.out : call.out[i].kind # "dry run: would create"
       /\ \E i \in DOMAIN call.out :
             call.out[i] = Line("warning: failed to convert", arg.task.Name)

(***************************************************************************)
(* The file name derived from a task name.                                 *)
(***************************************************************************)
\* the longest task name
MaxNameLen == 3

\* the ten characters the derivation replaces
ReplacedChars == {"/", "\\", ":", "*", "?", "\"", "<", ">", "|", " "}

\* the characters of a task name: the replaced ones, the underscore, a letter
NameAlphabet == ReplacedChars \cup {"_", "a"}

TaskNames == {Concat(f) : f \in UNION {[1..n -> NameAlphabet] : n \in 0..MaxNameLen}}

InitFilename ==
    /\ storage = EmptyStorage
    /\ call = NoCall
    /\ arg \in {[fn |-> "name", name |-> n] : n \in TaskNames}
    /\ ret = Idle

\* the derived name as the caller receives it, and the name derived from it
Derived(fn, out, again) == [fn |-> fn, out |-> out, again |-> again]

\* filename := sanitizeFilename(task.Name) of ConvertTasks, applied to the
\* name and then to its own result
DeriveTaskFilename ==
    /\ ret = Idle
    /\ arg.fn = "name"
    /\ ret' = Derived("sanitizeFilename", sanitizeFilename(arg.name),
                      sanitizeFilename(sanitizeFilename(arg.name)))
    /\ UNCHANGED <<storage, call, arg>>

\* filename := c.sanitizeFilename(task.Name) of ConvertLaunchConfigs, likewise
DeriveLaunchFilename ==
    /\ ret = Idle
    /\ arg.fn = "name"
    /\ ret' = Derived("VSCodeLaunchToJetBrainsConverter.sanitizeFilename",
                      Launch_sanitizeFilename(arg.name),
                      Launch_sanitizeFilename(Launch_sanitizeFilename(arg.name)))
    /\ UNCHANGED <<storage, call, arg>>

NextFilename == DeriveTaskFilename \/ DeriveLaunchFilename

SpecFilename == InitFilename /\ [][NextFilename]_vars

\* C20: the derived file name has the length of the task name, holds an
\* underscore wherever the name holds one of / \ : * ? " < > | or a space and
\* the name's own character everywhere else, so it holds none of the ten
\* characters, and deriving again from it gives it back unchanged.
C20_FilenameDerivation ==
    ret # Idle =>
       /\ Len(ret.out) = Len(arg.name)
       /\ \A i \in 1..Len(arg.name) :
             CharAt(ret.out, i) = IF CharAt(arg.name, i) \in ReplacedChars THEN "_"
                                  ELSE CharAt(arg.name, i)
       /\ \A i \in 1..Len(ret.out) : CharAt(ret.out, i) \notin ReplacedChars
       /\ ret.again = ret.out

\* a name holding a space, another replaced character and a letter, derived
C20_MixedNameWitness ==
    /\ ret # Idle
    /\ ret.fn = "sanitizeFilename"
    /\ Len(arg.name) = 3
    /\ \E i, j, k \in 1..3 :
          /\ CharAt(arg.name, i) = " "
          /\ CharAt(arg.name, j) \in ReplacedChars \ {" "}
          /\ CharAt(arg.name, k) = "a"

(***************************************************************************)
(* Two tasks of one batch and their files.                                 *)
(***************************************************************************)
\* the punctuation the derivation replaces, the space aside
Punctuation == ReplacedChars \ {" "}

\* the names have a position where they differ and one of them holds a
\* punctuation character other than the space
DifferInPunctuation(a, b) ==
    /\ Len(a) = Len(b)
    /\ \E i \in 1..Len(a) :
          /\ CharAt(a, i) # CharAt(b, i)
          /\ CharAt(a, i) \in Punctuation \/ CharAt(b, i) \in Punctuation

\* the file name a file-per-task converter derives for a task
FilenameOf(conv, task) ==
    IF conv = "VSCodeToJetBrains" THEN sanitizeFilename(task.Name) \o ".xml"
    ELSE LaunchFilename(task)

\* C21: two tasks of one batch whose names differ in a non-space punctuation
\* character get different file names, so after the run each one's file
\* holds its own configuration.
C21_PunctuationKeepsFilesApart ==
    (call # NoCall /\ call.conv \in FilePerTaskConverters)
    => \A i, j \in DOMAIN call.tasks :
          (/\ AcceptedBy(call.conv, call.tasks[i])
           /\ AcceptedBy(call.conv, call.tasks[j])
           /\ DifferInPunctuation(call.tasks[i].Name, call.tasks[j].Name))
          => FilenameOf(call.conv, call.tasks[i]) # FilenameOf(call.conv, call.tasks[j])

(***************************************************************************)
(* A text translated to the JetBrains placeholder syntax and back.         *)
(***************************************************************************)
\* the most pieces of a text
MaxPieces == 2

\* the VSCode placeholders the converters know, and plain text
VSCodePlaceholders ==
    {"${workspaceFolder}", "${workspaceRoot}", "${file}", "${fileBasename}",
     "${fileDirname}", "${fileExtname}", "${relativeFile}"}

Pieces == VSCodePlaceholders \cup {"/src", "a"}

\* the JetBrains placeholders the converters write
JetBrainsPlaceholders ==
    {"$PROJECT_DIR$", "$MODULE_DIR$", "$FilePath$", "$FileName$", "$FileDir$",
     "$FileExt$", "$FilePathRelativeToProjectRoot$"}

InitTranslate ==
    /\ storage = EmptyStorage
    /\ call = NoCall
    /\ arg \in {[fn |-> "text", pieces |-> p, text |-> Concat(p)] :
                   p \in UNION {[1..n -> Pieces] : n \in 0..MaxPieces}}
    /\ ret = Idle

\* the text in JetBrains syntax and the text translated back from it
Translated(fn, there, back) == [fn |-> fn, there |-> there, back |-> back]

\* a text of a build task: VSCodeToJetBrainsConverter.convertVSCodeVariables,
\* then convertJetBrainsVariables on the way back
TranslateTaskText ==
    /\ ret = Idle
    /\ arg.fn = "text"
    /\ ret' = Translated("VSCodeToJetBrainsConverter.convertVSCodeVariables",
                         convertVSCodeVariables(arg.text),
                         convertJetBrainsVariables(convertVSCodeVariables(arg.text)))
    /\ UNCHANGED <<storage, call, arg>>

\* a text of a launch configuration:
\* VSCodeLaunchToJetBrainsConverter.convertVSCodeVariables, then back
TranslateLaunchText ==
    /\ ret = Idle
    /\ arg.fn = "text"
    /\ ret' = Translated("VSCodeLaunchToJetBrainsConverter.convertVSCodeVariables",
                         Launch_convertVSCodeVariables(arg.text),
                         convertJetBrainsVariables(Launch_convertVSCodeVariables(arg.text)))
    /\ UNCHANGED <<storage, call, arg>>

NextTranslate == TranslateTaskText \/ TranslateLaunchText

SpecTranslate == InitTranslate /\ [][NextTranslate]_vars

\* the canonical VSCode placeholder of a piece's class
Canonical(piece) == IF piece = "${workspaceRoot}" THEN "${workspaceFolder}" ELSE piece

\* C22: a text translated from the VSCode placeholder syntax to the
\* JetBrains syntax and back is the original text with each placeholder
\* replaced by the canonical VSCode placeholder of its class, and holds no
\* JetBrains placeholder.
C22_BackTranslationCanonical ==
    ret # Idle =>
       /\ ret.back = Concat([i \in DOMAIN arg.pieces |-> Canonical(arg.pieces[i])])
       /\ \A p \in JetBrainsPlaceholders : ~Contains(ret.back, p)

(***************************************************************************)
(* One tasks.json entry parsed and converted to a run configuration.       *)
(***************************************************************************)
BuildCommands == {"go", "make", "javac", "java", "npm", "./gradlew", "mvn"}

BuildArgs ==
    {JAbsent, JArray(<<JString("build")>>),
     JArray(<<JString("build"), JString("-o"), JString("bin/app")>>)}

BuildCwds == {"", "${workspaceFolder}", "${workspaceRoot}", "${workspaceFolder}/web", "sub"}

BuildEntries ==
    {TaskEntry("build", cmd, a, JString("build"), cwd, env) :
        cmd \in BuildCommands, a \in BuildArgs, cwd \in BuildCwds, env \in {NoEnv, EnvA}}

InitBuildTask ==
    /\ storage = EmptyStorage
    /\ call = NoCall
    /\ arg \in {[fn |-> "entry", entry |-> e] : e \in BuildEntries}
    /\ ret = Idle

\* the parsed task and the run configuration made of it
BuildConfiguration(task, config) == [fn |-> "convertSingleTask", task |-> task, config |-> config]

\* TasksParser.convertTask of the entry, then
\* VSCodeToJetBrainsConverter.convertSingleTask of the parsed task
ConvertBuildEntry ==
    /\ ret = Idle
    /\ arg.fn = "entry"
    /\ \E keyOrder \in KeyOrders(arg.entry.env) :
          ret' = BuildConfiguration(
                     convertTask(ProjectRoot, arg.entry, "/p/.vscode/tasks.json").task,
                     convertSingleTask(
                         convertTask(ProjectRoot, arg.entry, "/p/.vscode/tasks.json").task,
                         keyOrder).config)
    /\ UNCHANGED <<storage, call, arg>>

NextBuildTask == ConvertBuildEntry

SpecBuildTask == InitBuildTask /\ [][NextBuildTask]_vars

\* the command matches no compiled-language, build-tool or
\* scripted-language pattern
MatchesNoPattern(command) ==
    /\ ToLower(command) # "java"
    /\ \A pattern \in {"gradle", "maven", "mvn", "npm", "node", "python", "py"} :
          ~Contains(ToLower(command), pattern)

\* the values of the options of a name (a configuration may repeat a name)
OptionValues(config, name) ==
    {config.Options[i].Value : i \in {j \in DOMAIN config.Options :
                                         config.Options[j].Name = name}}

\* C24: a build-task entry whose command matches no pattern and whose cwd
\* is the workspace folder converts to a ShellScript configuration whose
\* script text is the command followed by its arguments joined by single
\* spaces and whose working directory is the literal project root.
C24_GenericShellConfiguration ==
    (/\ ret # Idle
     /\ MatchesNoPattern(arg.entry.command)
     /\ arg.entry.cwd = "${workspaceFolder}")
    => /\ ret.config.Type = "ShellScript"
       /\ OptionValues(ret.config, "SCRIPT_TEXT")
            = {Join(<<arg.entry.command>> \o StringsOf(arg.entry.args), " ")}
       /\ OptionValues(ret.config, "WORKING_DIRECTORY") = {ProjectRoot}

\* the entry go build -o bin/app in ${workspaceFolder}, converted
C24_GoBuildWitness ==
    /\ ret # Idle
    /\ arg.entry.command = "go"
    /\ StringsOf(arg.entry.args) = <<"build", "-o", "bin/app">>
    /\ arg.entry.cwd = "${workspaceFolder}"
    /\ OptionValues(ret.config, "SCRIPT_TEXT") = {"go build -o bin/app"}

(***************************************************************************)
(* TaskFinder.FindTask.                                                    *)
(***************************************************************************)
\* the positions of the tasks whose name passes each of the three searches
ExactMatches(taskName, tasks) == {i \in DOMAIN tasks : tasks[i].Name = taskName}

CaseInsensitiveMatches(taskName, tasks) ==
    {i \in DOMAIN tasks : ToLower(tasks[i].Name) = ToLower(taskName)}

PartialMatches(taskName, tasks) ==
    {i \in DOMAIN tasks : Contains(ToLower(tasks[i].Name), ToLower(taskName))}

\* what FindTask returns: the task found or nil, and the error
Found(task) == [task |-> task, err |-> NoError]
NotFound(err) == [task |-> Nil, err |-> err]

\* a faulty partial search that settles for the first of several matches
PartialMatch_FirstOfSeveral(tasks, matches) ==
    IF matches # {} THEN Found(tasks[Min(matches)]) ELSE NotFound("task not found")

\* the end of FindTask: the partial match when it is the only one
PartialMatch(tasks, matches) ==
    IF Cardinality(matches) = 1 THEN Found(tasks[Min(matches)])
    ELSE IF Cardinality(matches) > 1 THEN NotFound("multiple tasks match")
    ELSE NotFound("task not found")

\* TaskFinder.FindTask
FindTask(taskName, tasks) ==
    IF ExactMatches(taskName, tasks) # {}
    THEN Found(tasks[Min(ExactMatches(taskName, tasks))])
    ELSE IF CaseInsensitiveMatches(taskName, tasks) # {}
    THEN Found(tasks[Min(CaseInsensitiveMatches(taskName, tasks))])
    ELSE PartialMatch(tasks, PartialMatches(taskName, tasks))

FinderNames == {"build", "Build", "build-all", "test"}

Queries == {"build", "BUILD", "uild", "t", "", "deploy"}

FinderTasks ==
    UNION {[1..n -> {Task(name, TypeVSCodeTask, "make", <<>>, ProjectRoot, NoEnv, "", "",
                          "/p/.vscode/tasks.json") : name \in FinderNames}] :
              n \in 0..MaxTasks}

InitFind ==
    /\ storage = EmptyStorage
    /\ call = NoCall
    /\ arg \in {[fn |-> "find", taskName |-> q, tasks |-> ts] :
                   q \in Queries, ts \in FinderTasks}
    /\ ret = Idle

\* finder.FindTask(taskName, tasks)
FindByName ==
    /\ ret = Idle
    /\ arg.fn = "find"
    /\ ret' = [fn |-> "FindTask", task |-> FindTask(arg.taskName, arg.tasks).task,
               err |-> FindTask(arg.taskName, arg.tasks).err]
    /\ UNCHANGED <<storage, call, arg>>

NextFind == FindByName

SpecFind == InitFind /\ [][NextFind]_vars

\* the names of the tasks searched
NamesOf(tasks) == {tasks[i].Name : i \in DOMAIN tasks}

\* the names that contain the query, ignoring case, one per task
Containing(taskName, tasks) ==
    {i \in DOMAIN tasks : Contains(ToLower(tasks[i].Name), ToLower(taskName))}

\* C25: FindTask returns a task named exactly as the query if there is one;
\* else a task named as the query ignoring case if there is one; else the
\* task whose name contains the query ignoring case if exactly one does;
\* otherwise an error and no task: ambiguous when several names contain the
\* query, not found when none does.
C25_ExactThenCaseThenUniquePartial ==
    ret # Idle =>
       IF arg.taskName \in NamesOf(arg.tasks)
       THEN ret.err = NoError /\ ret.task.Name = arg.taskName
       ELSE IF \E n \in NamesOf(arg.tasks) : ToLower(n) = ToLower(arg.taskName)
       THEN /\ ret.err = NoError
            /\ ret.task \in {arg.tasks[i] : i \in DOMAIN arg.tasks}
            /\ ToLower(ret.task.Name) = ToLower(arg.taskName)
       ELSE IF Cardinality(Containing(arg.taskName, arg.tasks)) = 1
       THEN /\ ret.err = NoError
            /\ \A i \in Containing(arg.taskName, arg.tasks) : ret.task = arg.tasks[i]
       ELSE /\ ret.task = Nil
            /\ ret.err = IF Containing(arg.taskName, arg.tasks) = {}
                         THEN "task not found" ELSE "multiple tasks match"

\* a query that is part of two names and equal to none: ambiguous
C25_AmbiguousWitness ==
    /\ ret # Idle
    /\ arg.taskName = "uild"
    /\ Cardinality(Containing(arg.taskName, arg.tasks)) = 2
    /\ ret.err = "multiple tasks match"

(***************************************************************************)
(* taskporter run: the selected task and its preLaunchTask                 *)
(* (internal/cmd/run.go).                                                  *)
(***************************************************************************)
\* how a RunTask call can end: the command is not started (validation or
\* exec failure), it is started and exits with a failure, or it succeeds
RunOutcomes == {"not started", "failed", "ok"}

Event(by, event, task) == [by |-> by, event |-> event, task |-> task]

\* the process events of one RunTask call: cmd.Run starts the command and
\* waits for it to exit
ProcessEvents(by, task, outcome) ==
    IF outcome = "not started" THEN <<>>
    ELSE <<Event(by, "started", task),
           Event(by, IF outcome = "ok" THEN "exited ok" ELSE "exited failed", task)>>

\* the tasks of the project in the order run.go collects them
AllTasks(project) ==
    project.tasks
    \o (IF ParseLaunchConfigs(ProjectRoot, project.launch).err = NoError
        THEN ParseLaunchConfigs(ProjectRoot, project.launch).tasks ELSE <<>>)

\* runPreLaunchTask up to the point where the preLaunchTask is to be run:
\* nothing to run, the task to run, or the error of the search
PreLaunchTaskOf(project, launchTask) ==
    IF launchTask.Type # TypeVSCodeLaunch THEN Found(Nil)
    ELSE IF GetPreLaunchTask(project.launch, launchTask.Name).err # NoError THEN Found(Nil)
    ELSE IF GetPreLaunchTask(project.launch, launchTask.Name).name = "" THEN Found(Nil)
    ELSE FindTask(GetPreLaunchTask(project.launch, launchTask.Name).name, AllTasks(project))

RunLaunchEntries ==
    { LaunchEntry("Go", "go", "launch", "", JAbsent, "", NoEnv, "build"),
      LaunchEntry("Go", "go", "launch", "", JAbsent, "", NoEnv, ""),
      LaunchEntry("Node", "node", "launch", "${workspaceFolder}/app.js", JAbsent, "",
                  NoEnv, ""),
      LaunchEntry("Py", "python", "launch", "main.py", JAbsent, "", NoEnv, "lint") }

RunTaskNames == {"build", "test"}

Projects ==
    {[fn |-> "run",
      launch |-> ParserFile("launch", "/p/.vscode/launch.json", fs, es),
      tasks |-> ts] :
        fs \in FileStates,
        es \in UNION {[1..n -> RunLaunchEntries] : n \in 0..MaxEntries},
        ts \in UNION {[1..n -> {Task(name, TypeVSCodeTask, "make", <<>>, ProjectRoot,
                                      NoEnv, "", "", "/p/.vscode/tasks.json") :
                                    name \in RunTaskNames}] : n \in 0..MaxTasks}}

InitRun ==
    /\ storage = EmptyStorage
    /\ call = NoCall
    /\ arg \in Projects
    /\ ret = Idle

\* runRunCommand: the task found by name or picked in the selector
SelectTask ==
    /\ call = NoCall
    /\ \E k \in DOMAIN AllTasks(arg) :
          call' = [conv |-> "run", pc |-> "runPreLaunchTask", index |-> k,
                   task |-> AllTasks(arg)[k]]
    /\ ret' = [fn |-> "executeSelectedTask", log |-> <<>>, err |-> NoError]
    /\ UNCHANGED <<storage, arg>>

\* executeSelectedTask, first half: runPreLaunchTask and its error
RunPreLaunchTask ==
    /\ call # NoCall
    /\ call.pc = "runPreLaunchTask"
    /\ IF PreLaunchTaskOf(arg, call.task).err # NoError
       THEN /\ call' = [call EXCEPT !.pc = "done"]
            /\ ret' = [ret EXCEPT !.err = "preLaunchTask failed"]
       ELSE IF PreLaunchTaskOf(arg, call.task).task = Nil
       THEN /\ call' = [call EXCEPT !.pc = "RunTask"]
            /\ ret' = ret
       ELSE \E outcome \in RunOutcomes :
               /\ call' = [call EXCEPT !.pc = IF outcome = "ok" THEN "RunTask" ELSE "done"]
               /\ ret' = [ret EXCEPT
                            !.log = @ \o ProcessEvents("preLaunchTask",
                                           PreLaunchTaskOf(arg, call.task).task, outcome),
                            !.err = IF outcome = "ok" THEN NoError
                                    ELSE "preLaunchTask failed"]
    /\ UNCHANGED <<storage, arg>>

\* executeSelectedTask, second half: taskRunner.RunTask(task)
RunSelectedTask ==
    /\ call # NoCall
    /\ call.pc = "RunTask"
    /\ \E outcome \in RunOutcomes :
          ret' = [ret EXCEPT !.log = @ \o ProcessEvents("task", call.task, outcome),
                             !.err = IF outcome = "ok" THEN NoError
                                     ELSE "execution failed"]
    /\ call' = [call EXCEPT !.pc = "done"]
    /\ UNCHANGED <<storage, arg>>

NextRun == SelectTask \/ RunPreLaunchTask \/ RunSelectedTask

SpecRun == InitRun /\ [][NextRun]_vars

\* the positions of the launch.json configurations that became tasks
ParsedConfigs(file) ==
    {i \in DOMAIN file.entries :
        convertLaunchConfig(ProjectRoot, file.entries[i], file.path).err = NoError}

\* the configuration the k-th launch task was parsed from
ConfigOfTask(file, k) ==
    CHOOSE i \in ParsedConfigs(file) :
        Cardinality({j \in ParsedConfigs(file) : j <= i}) = k

\* the preLaunchTask named by the configuration of the selected task, ""
\* for a task that is not a launch configuration
NamedPreLaunchTask ==
    IF call.task.Type # TypeVSCodeLaunch THEN ""
    ELSE arg.launch.entries[ConfigOfTask(arg.launch, call.index - Len(arg.tasks))]
            .preLaunchTask

\* C26: when a launch configuration that names a preLaunchTask is run, its
\* own process is started only after the named task was found among the
\* project's tasks, was run and exited successfully.
C26_PreLaunchTaskCompletesFirst ==
    (call # NoCall /\ NamedPreLaunchTask # "")
    => \A j \in DOMAIN ret.log :
          (ret.log[j].by = "task" /\ ret.log[j].event = "started")
          => /\ FindTask(NamedPreLaunchTask, AllTasks(arg)).err = NoError
             /\ \E i \in 1..(j - 1) :
                   ret.log[i] = Event("preLaunchTask", "exited ok",
                                      FindTask(NamedPreLaunchTask, AllTasks(arg)).task)

\* the configurations of the project's launch.json have distinct names
DistinctConfigNames ==
    \A i, j \in DOMAIN arg.launch.entries :
       arg.launch.entries[i].name = arg.launch.entries[j].name => i = j

\* the same, for launch files whose configurations have distinct names
C26_HoldsForDistinctNames ==
    DistinctConfigNames => C26_PreLaunchTaskCompletesFirst

\* a named preLaunchTask has exited successfully and the launch
\* configuration's process has been started after it
C26_RanInOrderWitness ==
    /\ call # NoCall
    /\ NamedPreLaunchTask = "build"
    /\ Len(ret.log) = 4
    /\ ret.log[2].event = "exited ok"
    /\ ret.log[3] = Event("task", "started", call.task)

(***************************************************************************)
(* The sanitizer (internal/security/sanitizer.go) and TaskRunner.RunTask   *)
(* (internal/runner/task_runner.go).                                       *)
(***************************************************************************)
Digits == "0123456789"

\* The pattern lists below are the sanitizer's without the backquote, a
\* character that no string of this module can hold and no input here has.

\* strings.Contains against each pattern of a list
ContainsAnyOf(s, patterns) == \E p \in patterns : Contains(s, p)

\* every character of s is one of chars
OnlyChars(s, chars) == \A i \in 1..Len(s) : Contains(chars, CharAt(s, i))

\* Sanitizer.ValidateTaskName
ValidateTaskName(taskName) ==
    IF taskName = "" THEN "task name cannot be empty"
    ELSE IF Len(taskName) > 100 THEN "task name too long"
    ELSE IF \E i \in 1..Len(taskName) : Contains("<>|&;$\"'", CharAt(taskName, i))
    THEN "task name contains dangerous characters"
    ELSE NoError

\* Sanitizer.SanitizeCommand
SanitizeCommand(command) ==
    IF command = "" THEN "command cannot be empty"
    ELSE IF ContainsAnyOf(ToLower(command),
                {";", "|", "&", "&&", "||", "$(", ">>", "<<", "<(", ">(",
                 "rm -rf /", "rm -rf /*", ":(){ :|:& };:", "curl -s", "wget -q"})
    THEN "potentially dangerous command pattern detected"
    ELSE IF ~OnlyChars(command, LowerLetters \o UpperLetters \o Digits \o "-_./\\")
    THEN "command contains invalid characters"
    ELSE NoError

\* Sanitizer.validateArgument
validateArgument(a) ==
    IF ContainsAnyOf(ToLower(a), {"--exec", "--evaluate", "--command", "-e ", "-c ", "/c ",
                                  "/k ", "$(", "${", "&", "|", ";"})
    THEN "potentially dangerous argument pattern"
    ELSE NoError

\* Sanitizer.SanitizeArgs: the arguments without the empty ones, or an error
SanitizeArgs(args) ==
    IF \E i \in DOMAIN args : args[i] # "" /\ validateArgument(args[i]) # NoError
    THEN [args |-> <<>>, err |-> "invalid argument"]
    ELSE [args |-> SelectSeq(args, LAMBDA a : a # ""), err |-> NoError]

\* Sanitizer.validateEnvKey
validateEnvKey(key) ==
    IF key = "" THEN "environment variable key cannot be empty"
    ELSE IF ~(/\ Contains(UpperLetters \o "_", CharAt(key, 1))
              /\ OnlyChars(key, UpperLetters \o Digits \o "_"))
    THEN "environment variable key must contain only uppercase letters, numbers, and underscores"
    ELSE IF key \in {"PATH", "LD_LIBRARY_PATH", "DYLD_LIBRARY_PATH", "LD_PRELOAD", "SHELL",
                     "IFS", "PS1", "PS2", "PS3", "PS4"}
    THEN "modifying system environment variable is not allowed"
    ELSE NoError

\* Sanitizer.validateEnvValue
validateEnvValue(value) ==
    IF ContainsAnyOf(value, {"$(", "${", ";", "|", "&", "../", "..\\"})
    THEN "potentially dangerous pattern in value"
    ELSE NoError

\* a faulty SanitizeEnvironment that validates the keys only
SanitizeEnvironment_KeysOnly(env) ==
    IF \E k \in DOMAIN env : validateEnvKey(k) # NoError
    THEN [env |-> NoEnv, err |-> "invalid environment variable"]
    ELSE [env |-> env, err |-> NoError]

\* Sanitizer.SanitizeEnvironment
SanitizeEnvironment(env) ==
    IF \E k \in DOMAIN env : validateEnvKey(k) # NoError \/ validateEnvValue(env[k]) # NoError
    THEN [env |-> NoEnv, err |-> "invalid environment variable"]
    ELSE [env |-> env, err |-> NoError]

\* the elements of a slash-separated path
RECURSIVE SplitPathAcc(_, _, _)
SplitPathAcc(path, cur, acc) ==
    IF path = "" THEN Append(acc, cur)
    ELSE IF Head(path) = "/" THEN SplitPathAcc(Tail(path), "", Append(acc, cur))
    ELSE SplitPathAcc(Tail(path), cur \o CharAt(path, 1), acc)

\* filepath.Clean on the elements: "." and empty elements go, ".." removes
\* the element before it, stays at the front of a relative path and goes at
\* the front of a rooted one
RECURSIVE CleanElements(_, _, _)
CleanElements(elems, rooted, stack) ==
    IF elems = <<>> THEN stack
    ELSE IF Head(elems) \in {"", "."} THEN CleanElements(Tail(elems), rooted, stack)
    ELSE IF Head(elems) # ".." THEN CleanElements(Tail(elems), rooted, Append(stack, Head(elems)))
    ELSE IF stack # <<>> /\ stack[Len(stack)] # ".."
    THEN CleanElements(Tail(elems), rooted, SubSeq(stack, 1, Len(stack) - 1))
    ELSE IF rooted THEN CleanElements(Tail(elems), rooted, stack)
    ELSE CleanElements(Tail(elems), rooted, Append(stack, ".."))

\* filepath.Clean
Clean(path) ==
    IF IsAbs(path) THEN "/" \o Join(CleanElements(SplitPathAcc(path, "", <<>>), TRUE, <<>>), "/")
    ELSE IF CleanElements(SplitPathAcc(path, "", <<>>), FALSE, <<>>) = <<>> THEN "."
    ELSE Join(CleanElements(SplitPathAcc(path, "", <<>>), FALSE, <<>>), "/")

\* Sanitizer.SanitizePath
SanitizePath(projectRoot, path) ==
    IF path = "" THEN [path |-> "", err |-> "path cannot be empty"]
    ELSE IF Contains(Clean(path), "..")
    THEN [path |-> "", err |-> "directory traversal detected in path"]
    ELSE IF IsAbs(Clean(path)) THEN [path |-> Clean(path), err |-> NoError]
    ELSE IF ~HasPrefix(Clean(projectRoot \o "/" \o Clean(path)), Clean(projectRoot))
    THEN [path |-> "", err |-> "path escapes project directory"]
    ELSE [path |-> Clean(projectRoot \o "/" \o Clean(path)), err |-> NoError]

\* TaskRunner.validateTaskSecurity
validateTaskSecurity(projectRoot, task) ==
    IF ValidateTaskName(task.Name) # NoError THEN "invalid task name"
    ELSE IF SanitizeCommand(task.Command) # NoError THEN "invalid command"
    ELSE IF SanitizeArgs(task.Args).err # NoError THEN "invalid arguments"
    ELSE IF task.Cwd # "" /\ SanitizePath(projectRoot, task.Cwd).err # NoError
    THEN "invalid working directory"
    ELSE IF SanitizeEnvironment(task.Env).err # NoError THEN "invalid environment variables"
    ELSE NoError

\* the command RunTask builds: exec.Command with its Dir and the task's part
\* of its Env
Command(name, args, dir, env) == [Path |-> name, Args |-> args, Dir |-> dir, Env |-> env]

\* RunTask from cmd.Run on: the command is spawned unless it cannot be
\* started, and its failure is the error
Run(task, cmd, outcome) ==
    [spawned |-> IF outcome = "not started" THEN <<>> ELSE <<cmd>>,
     err |-> IF outcome = "ok" THEN NoError ELSE "task failed"]

NotRun(err) == [spawned |-> <<>>, err |-> err]

\* TaskRunner.RunTask in paranoid mode
RunTaskParanoid(projectRoot, task, outcome) ==
    IF validateTaskSecurity(projectRoot, task) # NoError
    THEN NotRun("security validation failed")
    ELSE IF SanitizeArgs(task.Args).err # NoError THEN NotRun("failed to sanitize arguments")
    ELSE IF task.Cwd # "" /\ SanitizePath(projectRoot, task.Cwd).err # NoError
    THEN NotRun("failed to sanitize working directory")
    ELSE IF SanitizeEnvironment(task.Env).err # NoError
    THEN NotRun("failed to build environment")
    ELSE Run(task, Command(task.Command, SanitizeArgs(task.Args).args,
                           IF task.Cwd # "" THEN SanitizePath(projectRoot, task.Cwd).path
                           ELSE "",
                           SanitizeEnvironment(task.Env).env), outcome)

\* TaskRunner.RunTask
RunTask(projectRoot, paranoidMode, task, outcome) ==
    IF paranoidMode THEN RunTaskParanoid(projectRoot, task, outcome)
    ELSE Run(task, Command(task.Command, task.Args, task.Cwd, task.Env), outcome)

RunnerNames == {"build", "", "a;b"}
RunnerCommands == {"go", "", "rm -rf /", "./run.sh", "echo hi"}
RunnerArgs == {"", "build", "--exec", "a&b"}
RunnerCwds == {"", "/p", "sub/./x", "../x", "a/../../etc", "/p/../etc"}
RunnerEnvs ==
    { NoEnv, [k \in {"GOFLAGS"} |-> "-v"], [k \in {"PATH"} |-> "/x"],
      [k \in {"lower"} |-> "1"], [k \in {"A"} |-> "../x"] }

RunnerTasks ==
    {Task(name, TypeVSCodeTask, command, args, cwd, env, "", "", "/p/.vscode/tasks.json") :
        name \in RunnerNames, command \in RunnerCommands,
        args \in UNION {[1..n -> RunnerArgs] : n \in 0..MaxArgs},
        cwd \in RunnerCwds, env \in RunnerEnvs}

InitRunTask ==
    /\ storage = EmptyStorage
    /\ call = NoCall
    /\ arg \in {[fn |-> "RunTask", paranoidMode |-> p, task |-> t] :
                   p \in BOOLEAN, t \in RunnerTasks}
    /\ ret = Idle

\* tr.RunTask(task)
ExecuteTask ==
    /\ ret = Idle
    /\ arg.fn = "RunTask"
    /\ \E outcome \in RunOutcomes :
          ret' = [fn |-> "RunTask",
                  spawned |-> RunTask(ProjectRoot, arg.paranoidMode, arg.task, outcome).spawned,
                  err |-> RunTask(ProjectRoot, arg.paranoidMode, arg.task, outcome).err]
    /\ UNCHANGED <<storage, call, arg>>

NextRunTask == ExecuteTask

SpecRunTask == InitRunTask /\ [][NextRunTask]_vars

\* the task's name, command, arguments, working directory (when it has
\* one) and environment keys and values each pass the sanitizer
PassesValidation(task) ==
    /\ ValidateTaskName(task.Name) = NoError
    /\ SanitizeCommand(task.Command) = NoError
    /\ \A i \in DOMAIN task.Args : validateArgument(task.Args[i]) = NoError
    /\ task.Cwd # "" => SanitizePath(ProjectRoot, task.Cwd).err = NoError
    /\ \A k \in DOMAIN task.Env :
          validateEnvKey(k) = NoError /\ validateEnvValue(task.Env[k]) = NoError

\* C27: in paranoid mode RunTask spawns a process only for a task whose
\* name, command, arguments, working directory and environment keys and
\* values pass the sanitizer's validation; for any other task it returns
\* an error and spawns nothing.
C27_ParanoidSpawnsOnlyValidated ==
    (ret # Idle /\ arg.paranoidMode)
    => /\ ret.spawned # <<>> => PassesValidation(arg.task)
       /\ ~PassesValidation(arg.task) => (ret.err # NoError /\ ret.spawned = <<>>)

\* a task that fails validation on one environment value only is refused
C27_RefusedWitness ==
    /\ ret # Idle
    /\ arg.paranoidMode
    /\ arg.task.Name = "build" /\ arg.task.Command = "go" /\ arg.task.Cwd = "sub/./x"
    /\ arg.task.Args = <<"build">>
    /\ "A" \in DOMAIN arg.task.Env
    /\ validateEnvValue(arg.task.Env["A"]) # NoError
    /\ ret.err = "security validation failed"
    /\ ret.spawned = <<>>

\* a task that passes validation is spawned with its sanitized directory
C27_SpawnedWitness ==
    /\ ret # Idle
    /\ arg.paranoidMode
    /\ arg.task.Cwd = "sub/./x"
    /\ ret.spawned # <<>>
    /\ ret.spawned[1].Dir = "/p/sub/x"

(***************************************************************************)
(* The interactive task selector (internal/runner/task_selector.go).       *)
(***************************************************************************)
\* the longest search input typed
MaxSearchLen == 2

\* one row of the matrix of levenshteinDistance: the row of the character c
\* of s1, from the row before it, filled from column j on
RECURSIVE LevenshteinRow(_, _, _, _, _)
LevenshteinRow(prev, c, s2, j, row) ==
    IF j > Len(s2) THEN row
    ELSE LevenshteinRow(prev, c, s2, j + 1,
            Append(row, Min({prev[j + 1] + 1, row[j] + 1,
                             prev[j] + (IF c # CharAt(s2, j) THEN 1 ELSE 0)})))

\* the last row of the matrix after the rows of the characters from i on
RECURSIVE LevenshteinRows(_, _, _, _)
LevenshteinRows(s1, s2, i, prev) ==
    IF i > Len(s1) THEN prev
    ELSE LevenshteinRows(s1, s2, i + 1, LevenshteinRow(prev, CharAt(s1, i), s2, 1, <<i>>))

\* levenshteinDistance
levenshteinDistance(s1, s2) ==
    IF Len(s1) = 0 THEN Len(s2)
    ELSE IF Len(s2) = 0 THEN Len(s1)
    ELSE LevenshteinRows(s1, s2, 1, [j \in 1..(Len(s2) + 1) |-> j - 1])[Len(s2) + 1]

Max(a, b) == IF a > b THEN a ELSE b

\* a score, a number between 0 and 1, as a fraction
Score(num, den) == <<num, den>>

Positive(score) == score[1] > 0

Greater(a, b) == a[1] * b[2] > b[1] * a[2]

\* the end of calculateRelevanceScore: 0.8 times the similarity, or nothing
\* for a similarity under one half
SimilarityScore(distance, maxLen) ==
    IF distance > maxLen THEN Score(0, 1)
    ELSE IF 2 * (maxLen - distance) < maxLen THEN Score(0, 1)
    ELSE Score(8 * (maxLen - distance), 10 * maxLen)

\* calculateRelevanceScore, from the lower-cased strings on
RelevanceOf(queryLower, taskNameLower) ==
    IF queryLower = taskNameLower THEN Score(1, 1)
    ELSE IF Contains(taskNameLower, queryLower)
    THEN Score(9 * Len(queryLower), 10 * Len(taskNameLower))
    ELSE SimilarityScore(levenshteinDistance(queryLower, taskNameLower),
                         Max(Len(queryLower), Len(taskNameLower)))

\* calculateRelevanceScore
calculateRelevanceScore(query, taskName) ==
    IF query = "" THEN Score(1, 1) ELSE RelevanceOf(ToLower(query), ToLower(taskName))

\* the scores of the tasks for the search input
Scores(searchInput, tasks) ==
    [i \in DOMAIN tasks |-> calculateRelevanceScore(searchInput, tasks[i].Name)]

\* the positions of the tasks that match
Matches(scores) == {i \in DOMAIN scores : Positive(scores[i])}

\* sort.Slice by descending score; it may leave matches of equal score in
\* any order, here the order of the ranking tie
Before(scores, tie, i, j) ==
    \/ Greater(scores[i], scores[j])
    \/ (~Greater(scores[j], scores[i]) /\ tie[i] < tie[j])

First(scores, tie, matches) ==
    CHOOSE i \in matches : \A j \in matches \ {i} : Before(scores, tie, i, j)

RECURSIVE SortedFrom(_, _, _, _, _)
SortedFrom(tasks, scores, tie, matches, first) ==
    IF matches = {first} THEN <<tasks[first]>>
    ELSE <<tasks[first]>>
         \o SortedFrom(tasks, scores, tie, matches \ {first},
                       First(scores, tie, matches \ {first}))

SortedMatches(tasks, scores, tie, matches) ==
    IF matches = {} THEN <<>>
    ELSE SortedFrom(tasks, scores, tie, matches, First(scores, tie, matches))

\* the rankings sort.Slice may break ties by
Ties(tasks) ==
    {tie \in [DOMAIN tasks -> DOMAIN tasks] : \A i, j \in DOMAIN tasks : tie[i] = tie[j] => i = j}

\* filterTasks for a search input that is not empty
Filtered(m, scores, tie) ==
    [m EXCEPT !.filteredTasks = SortedMatches(m.tasks, scores, tie, Matches(scores)),
              !.cursor = IF m.cursor >= Cardinality(Matches(scores)) THEN 0 ELSE m.cursor]

\* a faulty filterTasks that resets the cursor only when no task matches
filterTasks_ResetWhenEmpty(m, tie) ==
    IF m.searchInput = "" THEN [m EXCEPT !.filteredTasks = m.tasks]
    ELSE [Filtered(m, Scores(m.searchInput, m.tasks), tie) EXCEPT
             !.cursor = IF Matches(Scores(m.searchInput, m.tasks)) = {} THEN 0 ELSE m.cursor]

\* TaskSelectorModel.filterTasks
filterTasks(m, tie) ==
    IF m.searchInput = "" THEN [m EXCEPT !.filteredTasks = m.tasks]
    ELSE Filtered(m, Scores(m.searchInput, m.tasks), tie)

\* NewTaskSelectorModel; cursor counts from 0 and selected is nil or the
\* task it points to: no element of a slice that filteredTasks has been is
\* ever written
NewTaskSelectorModel(tasks) ==
    [tasks |-> tasks, filteredTasks |-> tasks, cursor |-> 0, selected |-> Nil,
     quitting |-> FALSE, width |-> 0, height |-> 0, searchInput |-> "", searchMode |-> FALSE]

\* the characters from " " to "~", but for the backquote
PrintableChars ==
    LowerLetters \o UpperLetters \o Digits \o " !\"#$%&'()*+,-./:;<=>?@[\\]^_{|}~"

PrintableSet == {CharAt(PrintableChars, i) : i \in 1..Len(PrintableChars)}

Printable(key) == Len(key) = 1 /\ key \in PrintableSet

\* Update, a key in search mode
SearchKey(m, key, tie) ==
    IF key = "esc" THEN filterTasks([m EXCEPT !.searchMode = FALSE, !.searchInput = ""], tie)
    ELSE IF key = "enter"
    THEN (IF Len(m.filteredTasks) > 0 THEN [m EXCEPT !.searchMode = FALSE] ELSE m)
    ELSE IF key = "backspace"
    THEN (IF Len(m.searchInput) > 0
          THEN filterTasks([m EXCEPT !.searchInput = SubSeq(@, 1, Len(@) - 1)], tie)
          ELSE m)
    ELSE IF Printable(key) THEN filterTasks([m EXCEPT !.searchInput = @ \o key], tie)
    ELSE m

\* a faulty navigation mode in which q runs the task under the cursor
NavigationKey_QuitSelects(m, key) ==
    IF key \in {"q", "enter", " "} /\ Len(m.filteredTasks) > 0
    THEN [m EXCEPT !.selected = m.filteredTasks[m.cursor + 1], !.quitting = TRUE]
    ELSE IF key \in {"q", "esc"} THEN [m EXCEPT !.quitting = TRUE]
    ELSE m

\* Update, a key in navigation mode
NavigationKey(m, key) ==
    IF key \in {"q", "esc"} THEN [m EXCEPT !.quitting = TRUE]
    ELSE IF key = "/" THEN [m EXCEPT !.searchMode = TRUE]
    ELSE IF key \in {"up", "k"} THEN (IF m.cursor > 0 THEN [m EXCEPT !.cursor = @ - 1] ELSE m)
    ELSE IF key \in {"down", "j"}
    THEN (IF m.cursor < Len(m.filteredTasks) - 1 THEN [m EXCEPT !.cursor = @ + 1] ELSE m)
    ELSE IF key \in {"enter", " "}
    THEN (IF Len(m.filteredTasks) > 0
          THEN [m EXCEPT !.selected = m.filteredTasks[m.cursor + 1], !.quitting = TRUE]
          ELSE m)
    ELSE m

\* Update, tea.KeyMsg
UpdateKey(m, key, tie) ==
    IF key = "ctrl+c" THEN [m EXCEPT !.quitting = TRUE]
    ELSE IF m.searchMode THEN SearchKey(m, key, tie)
    ELSE NavigationKey(m, key)

SelectorNames == {"bat", "bit", "test"}

\* the tasks of a project, no name twice
SelectorTasks ==
    {ts \in UNION {[1..n -> {Task(name, TypeVSCodeTask, "make", <<>>, ProjectRoot, NoEnv,
                                  "", "", "/p/.vscode/tasks.json") :
                                name \in SelectorNames}] : n \in 0..MaxTasks} :
        \A i, j \in DOMAIN ts : ts[i] = ts[j] => i = j}

Keys == {"ctrl+c", "esc", "enter", "backspace", "q", "/", "up", "down", " ", "t"}

WindowSizes == {[Width |-> 80, Height |-> 24]}

\* the rankings that matter to Update: one, unless the key leads to a sort
SortOrders(m, key) ==
    IF m.searchMode /\ (key = "backspace" \/ Printable(key)) THEN Ties(m.tasks)
    ELSE {[i \in DOMAIN m.tasks |-> i]}

\* the model is in ret and the tasks it was created with in arg
InitSelector ==
    /\ storage = EmptyStorage
    /\ call = NoCall
    /\ arg \in {[fn |-> "select", tasks |-> ts] : ts \in SelectorTasks}
    /\ ret = NewTaskSelectorModel(arg.tasks)

\* Update, tea.WindowSizeMsg
UpdateWindowSize(m, size) == [m EXCEPT !.width = size.Width, !.height = size.Height]

\* Update(tea.WindowSizeMsg)
WindowSizeEvent ==
    /\ arg.fn = "select"
    /\ \E size \in WindowSizes : ret' = UpdateWindowSize(ret, size)
    /\ UNCHANGED <<storage, call, arg>>

\* Update(tea.KeyMsg)
KeyEvent ==
    /\ arg.fn = "select"
    /\ \E key \in Keys :
          /\ (ret.searchMode /\ Printable(key)) => Len(ret.searchInput) < MaxSearchLen
          /\ \E tie \in SortOrders(ret, key) : ret' = UpdateKey(ret, key, tie)
    /\ UNCHANGED <<storage, call, arg>>

NextSelector == WindowSizeEvent \/ KeyEvent

SpecSelector == InitSelector /\ [][NextSelector]_vars

\* C28: after any sequence of key and window-size events the cursor is a
\* position of the filtered list, 0 <= cursor < len(filteredTasks), when the
\* list is not empty, and 0 when it is empty.
C28_CursorInFilteredList ==
    arg.fn = "select"
    => IF ret.filteredTasks # <<>>
       THEN 0 <= ret.cursor /\ ret.cursor < Len(ret.filteredTasks)
       ELSE ret.cursor = 0

\* the search input has cut a list of two tasks to its second entry, and
\* the cursor is on it
C28_FilteredWitness ==
    /\ arg.fn = "select"
    /\ Len(ret.tasks) = 2
    /\ ret.searchMode /\ ret.searchInput = "tt"
    /\ ret.filteredTasks = <<ret.tasks[2]>>
    /\ ret.cursor = 0

\* what a key does to selected in the model m: only enter and space in
\* navigation mode change it, to the entry under the cursor, and quit
SelectsOnlyOnPress(m, key, after) ==
    after.selected # m.selected
    => /\ key \in {"enter", " "}
       /\ ~m.searchMode
       /\ m.filteredTasks # <<>>
       /\ after.selected = m.filteredTasks[m.cursor + 1]
       /\ after.quitting

\* C29: selected, once set, comes with quitting and is one of the tasks the
\* model was created with; of the events only enter and space in navigation
\* mode set it, to the entry of filteredTasks under the cursor, and quit:
\* q, esc, ctrl+c, every other key and a window size leave selected as it
\* is.
C29_SelectedIsTheEntryUnderCursor ==
    arg.fn = "select"
    => /\ ret.selected # Nil
            => /\ ret.quitting
               /\ \E i \in DOMAIN arg.tasks : ret.selected = arg.tasks[i]
       /\ \A key \in Keys : \A tie \in SortOrders(ret, key) :
             SelectsOnlyOnPress(ret, key, UpdateKey(ret, key, tie))
       /\ \A size \in WindowSizes : UpdateWindowSize(ret, size).selected = ret.selected

\* a task picked from a filtered list, under a cursor moved off the top
C29_SelectedWitness ==
    /\ arg.fn = "select"
    /\ ret.searchInput = "t" /\ ~ret.searchMode
    /\ Len(ret.tasks) = 2
    /\ ret.cursor = 1
    /\ ret.selected = ret.filteredTasks[2]
    /\ ret.quitting

\* The JSONC grammar once more: the position of the /* that opens a block
\* comment outside any string literal and is never closed, or 0 when the
\* text has no such comment.
RECURSIVE UnclosedBlockFrom(_, _, _, _)
UnclosedBlockFrom(s, i, mode, opener) ==
    IF i > Len(s) THEN (IF mode = "block" THEN opener ELSE 0)
    ELSE CASE mode = "plain" ->
                IF CharAt(s, i) = "\"" THEN UnclosedBlockFrom(s, i + 1, "string", 0)
                ELSE IF Pair(s, i, "/", "/") THEN UnclosedBlockFrom(s, i + 2, "line", 0)
                ELSE IF Pair(s, i, "/", "*") THEN UnclosedBlockFrom(s, i + 2, "block", i)
                ELSE UnclosedBlockFrom(s, i + 1, "plain", 0)
           [] mode = "string" ->
                IF CharAt(s, i) = "\\" THEN UnclosedBlockFrom(s, i + 1, "escape", 0)
                ELSE IF CharAt(s, i) = "\"" THEN UnclosedBlockFrom(s, i + 1, "plain", 0)
                ELSE UnclosedBlockFrom(s, i + 1, "string", 0)
           [] mode = "escape" -> UnclosedBlockFrom(s, i + 1, "string", 0)
           [] mode = "line" ->
                IF CharAt(s, i) \in {"\n", "\r"} THEN UnclosedBlockFrom(s, i + 1, "plain", 0)
                ELSE UnclosedBlockFrom(s, i + 1, "line", 0)
           [] mode = "block" ->
                IF Pair(s, i, "*", "/") THEN UnclosedBlockFrom(s, i + 2, "plain", 0)
                ELSE UnclosedBlockFrom(s, i + 1, "block", opener)

UnclosedBlock(s) == UnclosedBlockFrom(s, 1, "plain", 0)

\* C30: for a text in which a /* block comment that starts outside any
\* string literal is never closed, comment stripping emits no character
\* located after the /* opener.
C30_NothingAfterUnclosedOpener ==
    (ret # Idle /\ UnclosedBlock(arg.text) # 0)
    => \A k \in DOMAIN ret.kept : ret.kept[k] < UnclosedBlock(arg.text)

\* the same, for the texts whose unclosed comment is empty: the opener ends
\* the text
C30_HoldsWhenOpenerEndsText ==
    (ret # Idle /\ UnclosedBlock(arg.text) # 0 /\ UnclosedBlock(arg.text) + 1 = Len(arg.text))
    => \A k \in DOMAIN ret.kept : ret.kept[k] < UnclosedBlock(arg.text)
=============================================================================
